---- MODULE Spec2Model ----
(***************************************************************************)
(* A model of ada's query compiler (src/ada/query_parser.py): entity       *)
(* resolution against the game catalog and the compilation of a parsed     *)
(* optimization query, clause by clause, into an OptimizationQuery.        *)
(***************************************************************************)
EXTENDS Integers, Sequences, FiniteSets, TLC

(***************************************************************************)
(* Strings.  A Python str is an atom (a TLA+ string) where the code only   *)
(* compares or stores it, and the sequence of its characters, Spell[s],    *)
(* where the code looks inside it (split, startswith, fullmatch).          *)
(***************************************************************************)
W_iron == <<"i", "r", "o", "n">>
W_rod == <<"r", "o", "d">>
W_ore == <<"o", "r", "e">>
W_screw == <<"s", "c", "r", "e", "w">>
W_coal == <<"c", "o", "a", "l">>
W_recipe == <<"r", "e", "c", "i", "p", "e">>
W_power == <<"p", "o", "w", "e", "r">>
W_item == <<"i", "t", "e", "m">>
W_crafter == <<"c", "r", "a", "f", "t", "e", "r">>
W_generator == <<"g", "e", "n", "e", "r", "a", "t", "o", "r">>
W_constructor == <<"c", "o", "n", "s", "t", "r", "u", "c", "t", "o", "r">>
W_alternate == <<"a", "l", "t", "e", "r", "n", "a", "t", "e">>
W_cast == <<"c", "a", "s", "t">>
W_space == <<"s", "p", "a", "c", "e">>
W_tickets == <<"t", "i", "c", "k", "e", "t", "s">>
W_resources == <<"r", "e", "s", "o", "u", "r", "c", "e", "s">>
W_recipes == <<"r", "e", "c", "i", "p", "e", "s">>
W_unweighted == <<"u", "n", "w", "e", "i", "g", "h", "t", "e", "d">>
W_weighted == <<"w", "e", "i", "g", "h", "t", "e", "d">>
SP == <<" ">>
HY == <<"-">>
CO == <<":">>

\* Human-readable names, as the catalog renders them (mixed case).
N_IronRod == <<"I">> \o <<"r", "o", "n">> \o SP \o <<"R">> \o <<"o", "d">>
N_IronOre == <<"I">> \o <<"r", "o", "n">> \o SP \o <<"O">> \o <<"r", "e">>
N_Screw == <<"S">> \o <<"c", "r", "e", "w">>
N_Constructor == <<"C">> \o Tail(W_constructor)
N_CoalGenerator == <<"C">> \o Tail(W_coal) \o SP \o <<"G">> \o Tail(W_generator)
N_Recipe == <<"R">> \o Tail(W_recipe) \o CO \o SP
N_PowerRecipe == <<"P">> \o Tail(W_power) \o SP \o N_Recipe
N_Alternate == <<"A">> \o Tail(W_alternate) \o CO \o SP
N_Coal == <<"C">> \o Tail(W_coal)

Spell ==
    [s \in {"item:iron-rod", "item:screw", "item:iron-ore", "recipe:iron-rod",
            "recipe:screw", "recipe:alternate:cast-screw", "power-recipe:coal",
            "crafter:constructor", "generator:coal-generator",
            "power", "tickets", "space", "unweighted-resources",
            "weighted-resources", "alternate-recipes",
            "recipe:", "power-recipe:", "crafter:", "generator:",
            "recipe: alternate: ",
            "iron rod", "screws", "iron ore", "constructor", "coal",
            "coal generator", ".*", "cast screw"} |->
        CASE s = "item:iron-rod" -> W_item \o CO \o W_iron \o HY \o W_rod
          [] s = "item:screw" -> W_item \o CO \o W_screw
          [] s = "item:iron-ore" -> W_item \o CO \o W_iron \o HY \o W_ore
          [] s = "recipe:iron-rod" -> W_recipe \o CO \o W_iron \o HY \o W_rod
          [] s = "recipe:screw" -> W_recipe \o CO \o W_screw
          [] s = "recipe:alternate:cast-screw" ->
                W_recipe \o CO \o W_alternate \o CO \o W_cast \o HY \o W_screw
          [] s = "power-recipe:coal" -> W_power \o HY \o W_recipe \o CO \o W_coal
          [] s = "crafter:constructor" -> W_crafter \o CO \o W_constructor
          [] s = "generator:coal-generator" ->
                W_generator \o CO \o W_coal \o HY \o W_generator
          [] s = "power" -> W_power
          [] s = "tickets" -> W_tickets
          [] s = "space" -> W_space
          [] s = "unweighted-resources" -> W_unweighted \o HY \o W_resources
          [] s = "weighted-resources" -> W_weighted \o HY \o W_resources
          [] s = "alternate-recipes" -> W_alternate \o HY \o W_recipes
          [] s = "recipe:" -> W_recipe \o CO
          [] s = "power-recipe:" -> W_power \o HY \o W_recipe \o CO
          [] s = "crafter:" -> W_crafter \o CO
          [] s = "generator:" -> W_generator \o CO
          [] s = "recipe: alternate: " -> W_recipe \o CO \o SP \o W_alternate \o CO \o SP
          [] s = "iron rod" -> W_iron \o SP \o W_rod
          [] s = "screws" -> W_screw \o <<"s">>
          [] s = "iron ore" -> W_iron \o SP \o W_ore
          [] s = "constructor" -> W_constructor
          [] s = "coal" -> W_coal
          [] s = "coal generator" -> W_coal \o SP \o W_generator
          [] s = ".*" -> <<".", "*">>
          [] s = "cast screw" -> W_cast \o SP \o W_screw]

\* str.lower() and str.upper(), letter by letter.
ascii_lowercase ==
    <<"a", "b", "c", "d", "e", "f", "g", "h", "i", "j", "k", "l", "m",
      "n", "o", "p", "q", "r", "s", "t", "u", "v", "w", "x", "y", "z">>
ascii_uppercase ==
    <<"A", "B", "C", "D", "E", "F", "G", "H", "I", "J", "K", "L", "M",
      "N", "O", "P", "Q", "R", "S", "T", "U", "V", "W", "X", "Y", "Z">>

LowerChar(c) ==
    IF \E i \in 1..26 : ascii_uppercase[i] = c
    THEN ascii_lowercase[CHOOSE i \in 1..26 : ascii_uppercase[i] = c]
    ELSE c

UpperChar(c) ==
    IF \E i \in 1..26 : ascii_lowercase[i] = c
    THEN ascii_uppercase[CHOOSE i \in 1..26 : ascii_lowercase[i] = c]
    ELSE c

\* A str.lower() that leaves the letters as typed.
lower_as_typed(s) == s

lower(s) == [i \in 1..Len(s) |-> LowerChar(s[i])]
upper(s) == [i \in 1..Len(s) |-> UpperChar(s[i])]

\* str.strip(): leading and trailing whitespace removed.
RECURSIVE lstrip(_)
lstrip(s) == IF s # <<>> /\ Head(s) = " " THEN lstrip(Tail(s)) ELSE s

RECURSIVE rstrip(_)
rstrip(s) ==
    IF s # <<>> /\ s[Len(s)] = " " THEN rstrip(SubSeq(s, 1, Len(s) - 1)) ELSE s

strip(s) == rstrip(lstrip(s))

\* str.startswith(prefix)
startswith(s, prefix) ==
    /\ Len(prefix) <= Len(s)
    /\ SubSeq(s, 1, Len(prefix)) = prefix

\* list(filter(None, re.split('[<seps>]', s))): the non-empty runs of s
\* between characters of seps.
RECURSIVE SplitFrom(_, _, _)
SplitFrom(s, seps, cur) ==
    IF s = <<>>
    THEN IF cur = <<>> THEN <<>> ELSE <<cur>>
    ELSE IF Head(s) \in seps
         THEN (IF cur = <<>> THEN <<>> ELSE <<cur>>) \o SplitFrom(Tail(s), seps, <<>>)
         ELSE SplitFrom(Tail(s), seps, Append(cur, Head(s)))

split_parts(s, seps) == SplitFrom(s, seps, <<>>)

\* re.split('[:\-]', s) without the filter: empty runs are kept.
RECURSIVE SplitKeep(_, _, _)
SplitKeep(s, seps, cur) ==
    IF s = <<>>
    THEN <<cur>>
    ELSE IF Head(s) \in seps
         THEN <<cur>> \o SplitKeep(Tail(s), seps, <<>>)
         ELSE SplitKeep(Tail(s), seps, Append(cur, Head(s)))

\* str.split(':', 1)[1]: what follows the first colon.
RECURSIVE after_colon(_)
after_colon(s) == IF Head(s) = ":" THEN Tail(s) ELSE after_colon(Tail(s))

\* inflect.engine().plural(word) for the catalog's names, all of which end in
\* a noun that takes a plain "s".
plural(s) == Append(s, "s")

\* re.fullmatch(pattern, s) for patterns of literal characters, "." and a
\* starred character.
RECURSIVE fullmatch(_, _)
fullmatch(p, s) ==
    IF p = <<>>
    THEN s = <<>>
    ELSE LET atom(c) == Head(p) = "." \/ Head(p) = c
         IN  IF Len(p) >= 2 /\ p[2] = "*"
             THEN \/ fullmatch(Tail(Tail(p)), s)
                  \/ s # <<>> /\ atom(Head(s)) /\ fullmatch(p, Tail(s))
             ELSE s # <<>> /\ atom(Head(s)) /\ fullmatch(Tail(p), Tail(s))

(***************************************************************************)
(* The game catalog (ada/db.py: DB), read-only.  A catalog entry is named  *)
(* by its var; the tables give what the compiler asks of it.               *)
(***************************************************************************)
db_items == {"item:iron-rod", "item:screw", "item:iron-ore"}
db_recipes == {"recipe:iron-rod", "recipe:screw", "recipe:alternate:cast-screw"}
db_power_recipes == {"power-recipe:coal"}
db_crafters == {"crafter:constructor"}
db_generators == {"generator:coal-generator"}

Catalog == db_items \cup db_recipes \cup db_power_recipes \cup db_crafters \cup db_generators

is_resource(item) == item = "item:iron-ore"

human_readable_name(var) ==
    CASE var = "item:iron-rod" -> N_IronRod
      [] var = "item:screw" -> N_Screw
      [] var = "item:iron-ore" -> N_IronOre
      [] var = "recipe:iron-rod" -> N_Recipe \o N_IronRod
      [] var = "recipe:screw" -> N_Recipe \o N_Screw
      [] var = "recipe:alternate:cast-screw" ->
            N_Recipe \o N_Alternate \o <<"C">> \o Tail(W_cast) \o SP \o N_Screw
      [] var = "power-recipe:coal" -> N_PowerRecipe \o N_Coal
      [] var = "crafter:constructor" -> N_Constructor
      [] var = "generator:coal-generator" -> N_CoalGenerator

(***************************************************************************)
(* QueryParser._check_var: does the expression name the catalog entry?     *)
(***************************************************************************)
_check_var(expr_raw, var) ==
    LET expr == lower(strip(expr_raw))
        expr_parts == split_parts(expr, {" ", "-", "_", ":"})
        singular == lower(human_readable_name(var))
        singular_parts == split_parts(singular, {" ", ":", "-"})
        plural_ == plural(singular)
        plural_parts == split_parts(plural_, {" ", ":", "-"})
        var_parts == split_parts(Spell[var], {":", "-"})
        typeless_var == after_colon(Spell[var])
        typeless_var_parts == SplitKeep(typeless_var, {":", "-"}, <<>>)
    IN  \/ expr_parts = singular_parts
        \/ expr_parts = plural_parts
        \/ /\ startswith(singular, Spell["recipe: alternate: "])
           /\ \/ expr_parts = SubSeq(singular_parts, 3, Len(singular_parts))
              \/ expr_parts = SubSeq(singular_parts, 1, 1)
                                \o SubSeq(singular_parts, 3, Len(singular_parts))
              \/ expr_parts = SubSeq(plural_parts, 3, Len(plural_parts))
              \/ expr_parts = SubSeq(plural_parts, 1, 1)
                                \o SubSeq(plural_parts, 3, Len(plural_parts))
        \/ expr_parts = var_parts
        \/ expr_parts = typeless_var_parts
        \/ fullmatch(expr, singular)
        \/ fullmatch(expr, plural_)
        \/ fullmatch(expr, Spell[var])
        \/ fullmatch(expr, typeless_var)

\* The entity expressions the modelled queries use.
Exprs == {"iron rod", "screws", "iron ore", "constructor", "coal",
          "coal generator", ".*", "cast screw"}

\* _check_var over the expressions and the catalog, computed once.
CheckVarTable == [expr \in Exprs |-> [var \in Catalog |-> _check_var(Spell[expr], var)]]

(***************************************************************************)
(* QueryParser._get_matches: the catalog entries of the allowed types that *)
(* the expression names.  The code returns them as a list in set order;    *)
(* every caller modelled here uses the list as a set.                      *)
(***************************************************************************)
allowed_vars(allowed_types) ==
    (IF "resource" \in allowed_types
     THEN {item \in db_items : is_resource(item)} ELSE {})
    \cup (IF "item" \in allowed_types
          THEN {item \in db_items : ~is_resource(item)} ELSE {})
    \cup (IF "recipe" \in allowed_types THEN db_recipes ELSE {})
    \cup (IF "power-recipe" \in allowed_types THEN db_power_recipes ELSE {})
    \cup (IF "crafter" \in allowed_types THEN db_crafters ELSE {})
    \cup (IF "generator" \in allowed_types THEN db_generators ELSE {})

_get_matches(expr, allowed_types) ==
    {var \in allowed_vars(allowed_types) : CheckVarTable[expr][var]}

\* _get_matches on an expression given by its characters.
_get_matches_text(expr_text, allowed_types) ==
    {var \in allowed_vars(allowed_types) : _check_var(expr_text, var)}


(***************************************************************************)
(* Parse results.  A clause is the pyparsing Group of one output, input,   *)
(* include or exclude expression: `keys` is the set of result names it     *)
(* holds ("literal" in output), the other fields their values.  A value    *)
(* token is "?", "_" (any, or omitted) or an unsigned integer.             *)
(***************************************************************************)
MaxClauses == 3

objective_value == [tok |-> "?", n |-> 0]
any_value == [tok |-> "_", n |-> 0]
num_value(n) == [tok |-> "int", n |-> n]

NumValues == {60}
Values == {objective_value, any_value} \cup {num_value(n) : n \in NumValues}

Literal(l) == [keys |-> {"literal"}, literal |-> l, entity |-> ""]
PowerLiteral == [keys |-> {"literal", "power"}, literal |-> "power", entity |-> ""]
Entity(e) == [keys |-> {"entity"}, literal |-> "", entity |-> e]
Byproducts == [keys |-> {"byproducts"}, literal |-> "", entity |-> ""]

OutputVars == {PowerLiteral, Entity(".*"), Entity("constructor")}
InputVars == {Literal("unweighted-resources"), Literal("space"), Entity("iron ore"),
              Entity("constructor")}
IncludeVars == {Literal("space"), Entity("iron rod"), Entity("coal"),
                Entity("constructor"), Entity("coal generator"), Entity("iron ore")}
ExcludeVars == {Literal("alternate-recipes"), Byproducts, Entity("iron rod"),
                Entity(".*"), Entity("iron ore")}

\* strict + value + var.  `only` is taken with a numeric value (`only 60 iron
\* rods`); the code tests it apart from the value.
ValuedClauses(vars_) ==
    {c \in [strict : BOOLEAN, value : Values, var : vars_] :
        c.strict => c.value.tok = "int"}

Clause(c) ==
    [strict |-> c.strict, value |-> c.value, keys |-> c.var.keys,
     literal |-> c.var.literal, entity |-> c.var.entity]

\* The numbers of output, input, include and exclude clauses of a query: the
\* grammar's optimization_query has one or more output clauses, then
\* optional input, include and exclude clause lists.
ClauseCounts ==
    {c \in (1..MaxClauses) \X (0..MaxClauses) \X (0..MaxClauses) \X (0..MaxClauses) :
        c[1] + c[2] + c[3] + c[4] <= MaxClauses}

ParseResults ==
    UNION {[outputs : [1..c[1] -> {Clause(o) : o \in ValuedClauses(OutputVars)}],
            inputs : [1..c[2] -> {Clause(i) : i \in ValuedClauses(InputVars)}],
            includes : [1..c[3] -> IncludeVars],
            excludes : [1..c[4] -> ExcludeVars]] : c \in ClauseCounts}

(***************************************************************************)
(* OptimizationQuery(raw_query) (ada/query.py): the query under            *)
(* construction, with no objective, no constraint and every flag off.      *)
(***************************************************************************)
EmptyDict == [k \in {} |-> 0]

OptimizationQuery ==
    [maximize_objective |-> TRUE,
     objective_coefficients |-> EmptyDict,
     eq_constraints |-> EmptyDict,
     ge_constraints |-> EmptyDict,
     le_constraints |-> EmptyDict,
     strict_inputs |-> FALSE,
     strict_outputs |-> FALSE,
     strict_crafters |-> FALSE,
     strict_generators |-> FALSE,
     strict_recipes |-> FALSE,
     strict_power_recipes |-> FALSE,
     has_power_output |-> FALSE]

\* dict.update({var: value for var in vars_})
update(d, vars_, value) ==
    [k \in DOMAIN d \cup vars_ |-> IF k \in vars_ THEN value ELSE d[k]]

\* {var: value for var in vars_}
dict_of(vars_, value) == [k \in vars_ |-> value]

\* Python's None.
None == "None"

NoError == [msg |-> "", expr |-> ""]
QueryParseException(msg, expr) == [msg |-> msg, expr |-> expr]

VARIABLES
    parse_results,   \* the parse tree handed to _parse_optimization_query
    query,           \* the OptimizationQuery being filled in
    pc,              \* the section being compiled, "done" once the query is returned
    idx,             \* position of the current clause in the section's loop
    error            \* the QueryParseException raised, NoError if none

vars == <<parse_results, query, pc, idx, error>>

\* Entity resolution on its own: QueryParser._get_matches called with a
\* phrase spelled one way or another.
VARIABLES
    phrase_tokens,   \* the tokens of the phrase
    phrase_types,    \* the catalog categories the caller allows
    phrase,          \* the phrase as typed, <<>> before the call
    phrase_matches   \* what _get_matches returned for the phrase

resolver_vars == <<phrase_tokens, phrase_types, phrase, phrase_matches>>

ResolverIdle ==
    /\ phrase_tokens = <<>>
    /\ phrase_types = {}
    /\ phrase = <<>>
    /\ phrase_matches = {}

\* An optimization result: the solver's outcome handed to OptimizationResult
\* and what the object's methods return.
VARIABLES
    lp,              \* [status, vars, objective]: the solved problem
    opt,             \* the OptimizationResult object, None before __init__
    text,            \* what str(result) returned, None before the call
    message,         \* the ResultMessage message() returned, None before the call
    output_gv_png,   \* the file output/output.gv.png, None while it does not exist
    exception,       \* the exception a method raised, None if none
    called           \* the methods called so far

\* An information result and the navigation trail of its message.
VARIABLES
    matched_vars,    \* the matches InfoResult is constructed with
    info,            \* the InfoResult object
    breadcrumbs,     \* the Breadcrumbs of the message shown
    info_message,    \* <<m>> once message() has returned m, <<>> before
    selected_query,  \* <<q>> once handle_reaction has returned the query q
    info_exception   \* the exception handle_reaction raised, None if none

\* Two requests in flight, each rendering its own optimization result.
VARIABLES
    requests

\* Any result rendered by its message() method, by the length of its texts.
VARIABLES
    shown

optimization_vars == <<lp, opt, text, message, output_gv_png, exception, called>>
info_vars ==
    <<matched_vars, info, breadcrumbs, info_message, selected_query, info_exception>>

OptimizationIdle ==
    /\ lp = None
    /\ opt = None
    /\ text = None
    /\ message = None
    /\ output_gv_png = None
    /\ exception = None
    /\ called = {}

InfoResultIdle ==
    /\ matched_vars = <<>>
    /\ info = None
    /\ info_message = <<>>
    /\ selected_query = <<>>
    /\ info_exception = None

InfoIdle == InfoResultIdle /\ breadcrumbs = None
RequestsIdle == requests = None
ShownIdle == shown = None

\* The optimization-query compiler runs with the other components at rest.
OutsideCompiler == <<resolver_vars, optimization_vars, info_vars, requests, shown>>
OutsideCompilerIdle ==
    ResolverIdle /\ OptimizationIdle /\ InfoIdle /\ RequestsIdle /\ ShownIdle

every_var == <<vars, OutsideCompiler>>

Init ==
    /\ parse_results \in ParseResults
    /\ query = OptimizationQuery
    /\ pc = "outputs"
    /\ idx = 1
    /\ error = NoError
    /\ OutsideCompilerIdle

\* raise QueryParseException(...): the exception leaves parse(); compilation
\* stops at the clause that raised and no query is returned.
Raise(msg, expr) ==
    /\ error' = QueryParseException(msg, expr)
    /\ UNCHANGED <<parse_results, query, pc, idx>>

Running(section) == pc = section /\ error = NoError

\* The end of one iteration of a section's for loop: on to the next clause,
\* or return to _parse_optimization_query, which calls the next section.
Advance(section, next_section) ==
    /\ IF idx < Len(parse_results[section])
       THEN idx' = idx + 1 /\ pc' = pc
       ELSE idx' = 1 /\ pc' = next_section
    /\ UNCHANGED <<parse_results, error>>

\* len(query.objective_coefficients) > 0: a `?` clause has set the objective.
objective_already_set_off_by_one(q) == Cardinality(DOMAIN q.objective_coefficients) > 1

objective_already_set(q) == Cardinality(DOMAIN q.objective_coefficients) > 0

(***************************************************************************)
(* _parse_outputs: one iteration of its loop.  The grammar yields at least *)
(* one output clause, so the "No outputs specified" raise is never taken.  *)
(***************************************************************************)
output_vars_of(output) ==
    (IF "literal" \in output.keys THEN {output.literal} ELSE {})
    \cup (IF "entity" \in output.keys
          THEN _get_matches(output.entity, {"item"}) ELSE {})

\* As apply_output, but a numeric value is recorded as a lower bound.
apply_output_numeric_as_ge(q, output, output_vars) ==
    LET value == output.value
        q1 == IF value = objective_value
              THEN [q EXCEPT !.maximize_objective = TRUE,
                             !.objective_coefficients = dict_of(output_vars, 1)]
              ELSE IF value = any_value
              THEN [q EXCEPT !.ge_constraints = update(@, output_vars, 0)]
              ELSE [q EXCEPT !.ge_constraints = update(@, output_vars, value.n)]
        q2 == IF output.strict THEN [q1 EXCEPT !.strict_outputs = TRUE] ELSE q1
    IN  IF "power" \in output.keys THEN [q2 EXCEPT !.has_power_output = TRUE] ELSE q2

\* What a resolved output clause does to the query.
apply_output(q, output, output_vars) ==
    LET value == output.value
        q1 == IF value = objective_value
              THEN [q EXCEPT !.maximize_objective = TRUE,
                             !.objective_coefficients = dict_of(output_vars, 1)]
              ELSE IF value = any_value
              THEN [q EXCEPT !.ge_constraints = update(@, output_vars, 0)]
              ELSE [q EXCEPT !.eq_constraints = update(@, output_vars, value.n)]
        q2 == IF output.strict THEN [q1 EXCEPT !.strict_outputs = TRUE] ELSE q1
    IN  IF "power" \in output.keys THEN [q2 EXCEPT !.has_power_output = TRUE] ELSE q2

ParseOutput ==
    /\ Running("outputs")
    /\ idx <= Len(parse_results.outputs)
    /\ LET output == parse_results.outputs[idx]
           output_vars == output_vars_of(output)
       IN  IF "entity" \in output.keys /\ Cardinality(output_vars) = 0
           THEN Raise("Could not parse item expression", output.entity)
           ELSE IF output.value = objective_value /\ objective_already_set(query)
           THEN Raise("Only one objective may be specified.", "")
           ELSE /\ query' = apply_output(query, output, output_vars)
                /\ Advance("outputs", "inputs")

(***************************************************************************)
(* _parse_inputs                                                           *)
(***************************************************************************)
\* As default_objective, but an objective a `?` output clause set is kept.
default_objective_unless_set(q) ==
    IF objective_already_set(q) THEN q
    ELSE [q EXCEPT !.maximize_objective = FALSE,
                   !.objective_coefficients = dict_of({"unweighted-resources"}, -1)]

\* The default objective: minimize unweighted resources.
default_objective(q) ==
    [q EXCEPT !.maximize_objective = FALSE,
              !.objective_coefficients = dict_of({"unweighted-resources"}, -1)]

\* As ParseNoInputs, but without the `if not inputs` test.
ParseNoInputs_untested ==
    /\ Running("inputs")
    /\ idx = 1
    /\ query' = default_objective(query)
    /\ pc' = "includes"
    /\ UNCHANGED <<parse_results, idx, error>>

\* `if not inputs`: the default objective is installed, and _parse_inputs returns.
ParseNoInputs ==
    /\ Running("inputs")
    /\ Len(parse_results.inputs) = 0
    /\ query' = default_objective(query)
    /\ pc' = "includes"
    /\ UNCHANGED <<parse_results, idx, error>>

input_vars_of(input_) ==
    IF "literal" \in input_.keys THEN {input_.literal}
    ELSE IF "entity" \in input_.keys
    THEN _get_matches(input_.entity, {"resource", "item"})
    ELSE {}

\* As apply_input, but the sign of a numeric value is kept.
apply_input_sign_kept(q, input_, input_vars) ==
    LET value == input_.value
        q1 == IF value = objective_value
              THEN [q EXCEPT !.maximize_objective = FALSE,
                             !.objective_coefficients = dict_of(input_vars, -1)]
              ELSE IF value = any_value
              THEN [q EXCEPT !.le_constraints = update(@, input_vars, 0)]
              ELSE [q EXCEPT !.ge_constraints = update(@, input_vars, value.n)]
    IN  IF input_.strict THEN [q1 EXCEPT !.strict_inputs = TRUE] ELSE q1

\* What a resolved input clause does to the query.
apply_input(q, input_, input_vars) ==
    LET value == input_.value
        q1 == IF value = objective_value
              THEN [q EXCEPT !.maximize_objective = FALSE,
                             !.objective_coefficients = dict_of(input_vars, -1)]
              ELSE IF value = any_value
              THEN [q EXCEPT !.le_constraints = update(@, input_vars, 0)]
              ELSE [q EXCEPT !.ge_constraints = update(@, input_vars, -value.n)]
    IN  IF input_.strict THEN [q1 EXCEPT !.strict_inputs = TRUE] ELSE q1

ParseInput ==
    /\ Running("inputs")
    /\ idx <= Len(parse_results.inputs)
    /\ LET input_ == parse_results.inputs[idx]
           input_vars == input_vars_of(input_)
       IN  IF "literal" \notin input_.keys /\ "entity" \in input_.keys
              /\ Cardinality(input_vars) = 0
           THEN Raise("Could not parse resource or item expression", input_.entity)
           ELSE IF input_.value = objective_value /\ objective_already_set(query)
           THEN Raise("Only one objective may be specified.", "")
           ELSE /\ query' = apply_input(query, input_, input_vars)
                /\ Advance("inputs", "includes")

(***************************************************************************)
(* _parse_includes                                                         *)
(***************************************************************************)
\* `if not includes: return`
ParseNoIncludes ==
    /\ Running("includes")
    /\ Len(parse_results.includes) = 0
    /\ pc' = "excludes"
    /\ UNCHANGED <<parse_results, query, idx, error>>

include_vars_of(include) ==
    IF "literal" \in include.keys THEN {include.literal}
    ELSE IF "entity" \in include.keys
    THEN _get_matches(include.entity, {"recipe", "power-recipe", "crafter", "generator"})
    ELSE {}

\* any(var.startswith(prefix) for var in vars_)
any_startswith(vars_, prefix) == \E var \in vars_ : startswith(Spell[var], Spell[prefix])

\* As apply_include, but "recipe:" is looked for anywhere in the type prefix,
\* so that a power recipe counts as a recipe too.
apply_include_prefix_contains(q, include_vars) ==
    [q EXCEPT
       !.ge_constraints = update(@, include_vars, 0),
       !.strict_recipes =
            @ \/ any_startswith(include_vars, "recipe:")
              \/ any_startswith(include_vars, "power-recipe:"),
       !.strict_power_recipes = @ \/ any_startswith(include_vars, "power-recipe:"),
       !.strict_crafters = @ \/ any_startswith(include_vars, "crafter:"),
       !.strict_generators = @ \/ any_startswith(include_vars, "generator:")]

\* What a resolved include clause does to the query.
apply_include(q, include_vars) ==
    [q EXCEPT
       !.ge_constraints = update(@, include_vars, 0),
       !.strict_recipes = @ \/ any_startswith(include_vars, "recipe:"),
       !.strict_power_recipes = @ \/ any_startswith(include_vars, "power-recipe:"),
       !.strict_crafters = @ \/ any_startswith(include_vars, "crafter:"),
       !.strict_generators = @ \/ any_startswith(include_vars, "generator:")]

\* As ParseInclude, but an expression that resolves to nothing is accepted.
ParseInclude_unchecked ==
    /\ Running("includes")
    /\ idx <= Len(parse_results.includes)
    /\ LET include == parse_results.includes[idx]
           include_vars == include_vars_of(include)
       IN  /\ query' = apply_include(query, include_vars)
           /\ Advance("includes", "excludes")

ParseInclude ==
    /\ Running("includes")
    /\ idx <= Len(parse_results.includes)
    /\ LET include == parse_results.includes[idx]
           include_vars == include_vars_of(include)
       IN  IF "literal" \notin include.keys /\ "entity" \in include.keys
              /\ Cardinality(include_vars) = 0
           THEN Raise("Could not parse recipe, power recipe, crafter, or generator expression",
                      include.entity)
           ELSE /\ query' = apply_include(query, include_vars)
                /\ Advance("includes", "excludes")

(***************************************************************************)
(* _parse_excludes                                                         *)
(***************************************************************************)
\* `if not excludes: return`, and _parse_optimization_query returns the query.
ParseNoExcludes ==
    /\ Running("excludes")
    /\ Len(parse_results.excludes) = 0
    /\ pc' = "done"
    /\ UNCHANGED <<parse_results, query, idx, error>>

exclude_vars_of(exclude) ==
    IF "literal" \in exclude.keys THEN {exclude.literal}
    ELSE IF "entity" \in exclude.keys
    THEN _get_matches(exclude.entity, {"recipe", "power-recipe", "crafter", "generator"})
    ELSE {}

\* dict without the given keys
without(d, vars_) == [k \in DOMAIN d \ vars_ |-> d[k]]

\* As apply_exclude, but the excluded vars lose their entry in the other maps.
apply_exclude_overwriting(q, exclude, exclude_vars) ==
    [q EXCEPT
       !.strict_outputs = @ \/ "byproducts" \in exclude.keys,
       !.eq_constraints = update(@, exclude_vars, 0),
       !.ge_constraints = without(@, exclude_vars),
       !.le_constraints = without(@, exclude_vars)]

\* As apply_exclude, but `byproducts` is recorded as an excluded var as well.
apply_exclude_byproducts_var(q, exclude, exclude_vars) ==
    [q EXCEPT
       !.strict_outputs = @ \/ "byproducts" \in exclude.keys,
       !.eq_constraints =
            update(@, exclude_vars \cup (exclude.keys \cap {"byproducts"}), 0)]

\* What a resolved exclude clause does to the query.
apply_exclude(q, exclude, exclude_vars) ==
    [q EXCEPT
       !.strict_outputs = @ \/ "byproducts" \in exclude.keys,
       !.eq_constraints = update(@, exclude_vars, 0)]

ParseExclude ==
    /\ Running("excludes")
    /\ idx <= Len(parse_results.excludes)
    /\ LET exclude == parse_results.excludes[idx]
           exclude_vars == exclude_vars_of(exclude)
       IN  IF "literal" \notin exclude.keys /\ "entity" \in exclude.keys
              /\ Cardinality(exclude_vars) = 0
           THEN Raise("Could not parse recipe, power recipe, crafter, or generator expression",
                      exclude.entity)
           ELSE /\ query' = apply_exclude(query, exclude, exclude_vars)
                /\ Advance("excludes", "done")

Next ==
    \/ ParseOutput /\ UNCHANGED OutsideCompiler
    \/ ParseNoInputs /\ UNCHANGED OutsideCompiler
    \/ ParseInput /\ UNCHANGED OutsideCompiler
    \/ ParseNoIncludes /\ UNCHANGED OutsideCompiler
    \/ ParseInclude /\ UNCHANGED OutsideCompiler
    \/ ParseNoExcludes /\ UNCHANGED OutsideCompiler
    \/ ParseExclude /\ UNCHANGED OutsideCompiler

Spec == Init /\ [][Next]_every_var

(***************************************************************************)
(* Vocabulary of the properties: the clauses of the query in evaluation    *)
(* order, position 1 being the first output clause.                        *)
(***************************************************************************)
Sections == <<"outputs", "inputs", "includes", "excludes">>

SectionLen(k) == Len(parse_results[Sections[k]])

Offset(k) ==
    CASE k = 1 -> 0
      [] k = 2 -> SectionLen(1)
      [] k = 3 -> SectionLen(1) + SectionLen(2)
      [] k = 4 -> SectionLen(1) + SectionLen(2) + SectionLen(3)

Positions == 1..(Offset(4) + SectionLen(4))

SectionIndex(p) ==
    IF p <= Offset(2) THEN 1 ELSE IF p <= Offset(3) THEN 2
    ELSE IF p <= Offset(4) THEN 3 ELSE 4

SectionAt(p) == Sections[SectionIndex(p)]

ClauseAt(p) == parse_results[SectionAt(p)][p - Offset(SectionIndex(p))]

\* The vars a clause names: its literal, or the catalog entries its entity
\* expression resolves to among the categories its section allows.
AllowedTypes(section) ==
    CASE section = "outputs" -> {"item"}
      [] section = "inputs" -> {"resource", "item"}
      [] OTHER -> {"recipe", "power-recipe", "crafter", "generator"}

AllowedCatalog == [section \in {"outputs", "inputs", "includes", "excludes"} |->
                      allowed_vars(AllowedTypes(section))]

NamedVars(p) ==
    LET c == ClauseAt(p)
    IN  IF "literal" \in c.keys THEN {c.literal}
        ELSE IF "entity" \in c.keys
        THEN {v \in AllowedCatalog[SectionAt(p)] : CheckVarTable[c.entity][v]}
        ELSE {}

\* The clause is an entity expression that resolves to nothing.
Unresolvable(p) == "entity" \in ClauseAt(p).keys /\ NamedVars(p) = {}

UnresolvablePositions == {p \in Positions : Unresolvable(p)}

\* The clauses that carry the objective marker `?`.
ObjectivePositions ==
    {p \in 1..Offset(3) : ClauseAt(p).value = objective_value}

\* The `?` clauses that follow another `?` clause.
RepeatedObjectivePositions ==
    {p \in ObjectivePositions : \E q \in ObjectivePositions : q < p}

Min(S) == CHOOSE m \in S : \A n \in S : m <= n

\* The position of the clause the compiler is at.
CurrentPosition == Offset(CHOOSE k \in 1..4 : Sections[k] = pc) + idx

Returned == pc = "done"
Failed == error # NoError

OnlyOneObjective == QueryParseException("Only one objective may be specified.", "")

CouldNotParse(p) ==
    QueryParseException(
        CASE SectionAt(p) = "outputs" -> "Could not parse item expression"
          [] SectionAt(p) = "inputs" -> "Could not parse resource or item expression"
          [] OTHER -> "Could not parse recipe, power recipe, crafter, or generator expression",
        ClauseAt(p).entity)

DefaultObjective == [k \in {"unweighted-resources"} |-> -1]

(***************************************************************************)
(* C1.  Every optimization query that compiles and has no input clause has *)
(* maximize_objective = false and objective_coefficients =                 *)
(* {"unweighted-resources": -1}, whatever its output, include and exclude  *)
(* clauses are.                                                            *)
(***************************************************************************)
C1_DefaultObjective ==
    (Returned /\ Len(parse_results.inputs) = 0) =>
        /\ query.maximize_objective = FALSE
        /\ query.objective_coefficients = DefaultObjective

\* A compiled query without input clause whose output clause carries `?`,
\* with an include and an exclude clause.
C1_Witness ==
    /\ Returned
    /\ Len(parse_results.inputs) = 0
    /\ ObjectivePositions # {}
    /\ Len(parse_results.includes) > 0
    /\ Len(parse_results.excludes) > 0

(***************************************************************************)
(* C2.  Every optimization query that compiles and whose only `?` is on an *)
(* output clause has maximize_objective = true and objective_coefficients  *)
(* mapping exactly the vars of that output clause to 1, with or without an *)
(* input clause.                                                           *)
(***************************************************************************)
C2_OutputObjective ==
    (/\ Returned
     /\ Cardinality(ObjectivePositions) = 1
     /\ \A p \in ObjectivePositions : SectionAt(p) = "outputs") =>
        \A p \in ObjectivePositions :
            /\ query.maximize_objective = TRUE
            /\ query.objective_coefficients = [v \in NamedVars(p) |-> 1]

C4_NoDefaultWithInputs ==
    (Returned /\ Len(parse_results.inputs) >= 1) =>
        IF ObjectivePositions = {}
        THEN /\ query.maximize_objective = OptimizationQuery.maximize_objective
             /\ query.objective_coefficients = EmptyDict
        ELSE \A p \in ObjectivePositions :
                IF SectionAt(p) = "outputs"
                THEN /\ query.maximize_objective = TRUE
                     /\ query.objective_coefficients = [v \in NamedVars(p) |-> 1]
                ELSE /\ query.maximize_objective = FALSE
                     /\ query.objective_coefficients = [v \in NamedVars(p) |-> -1]

\* A compiled query with an input clause and no `?` clause.
C4_Witness ==
    /\ Returned
    /\ Len(parse_results.inputs) >= 1
    /\ ObjectivePositions = {}

\* The vars the query's include clauses, and its exclude clauses, name.
IncludedVars == UNION {NamedVars(p) : p \in {r \in Positions : SectionAt(r) = "includes"}}
ExcludedVars == UNION {NamedVars(p) : p \in {r \in Positions : SectionAt(r) = "excludes"}}

Bound(d, v, n) == v \in DOMAIN d /\ d[v] = n

\* A step that applies the current clause of the given section to the query.
Applies(section) ==
    /\ Running(section)
    /\ idx <= Len(parse_results[section])
    /\ error' = NoError
    /\ vars' # vars

(***************************************************************************)
(* C5.  Sections are evaluated in the order outputs, inputs, includes,     *)
(* excludes and a later write to a var replaces an earlier one: a var that *)
(* an include clause and an exclude clause both name ends up bound in      *)
(* exactly one of eq_constraints, ge_constraints, le_constraints, the      *)
(* exclude's EQ 0 having overwritten the include's GE 0.                   *)
(***************************************************************************)
C5_Original ==
    Returned =>
        \A v \in IncludedVars \cap ExcludedVars :
            /\ Bound(query.eq_constraints, v, 0)
            /\ v \notin DOMAIN query.ge_constraints
            /\ v \notin DOMAIN query.le_constraints

SectionOrder ==
    {<<"outputs", "inputs">>, <<"inputs", "includes">>, <<"includes", "excludes">>,
     <<"excludes", "done">>}

\* C5 as amended: the sections are evaluated in that order, clause by clause,
\* and a later write replaces an earlier one in the same map only: every
\* included var ends with ge_constraints[v] = 0 and every excluded var with
\* eq_constraints[v] = 0, so a var both included and excluded is bound in
\* both maps (and not in le_constraints).
C5_LastWriteWinsPerMap ==
    [][/\ pc' # pc => <<pc, pc'>> \in SectionOrder
       /\ pc' = pc => idx' = idx \/ idx' = idx + 1
       /\ Returned' =>
            /\ \A v \in IncludedVars : Bound(query'.ge_constraints, v, 0)
            /\ \A v \in ExcludedVars : Bound(query'.eq_constraints, v, 0)
            /\ \A v \in IncludedVars \cap ExcludedVars :
                    v \notin DOMAIN query'.le_constraints]_vars

\* A compiled query with a var that is both included and excluded.
C5_Witness ==
    /\ Returned
    /\ IncludedVars \cap ExcludedVars # {}

(***************************************************************************)
(* C6.  An output clause with a numeric value N adds eq_constraints[v] = N *)
(* for every var v it names and adds no ge or le entry; if a clause        *)
(* carries `only`, strict_outputs is true in the compiled query.           *)
(***************************************************************************)
C6_NumericOutput ==
    [][/\ Applies("outputs") =>
            LET output == parse_results.outputs[idx]
                named == NamedVars(CurrentPosition)
            IN  /\ output.value.tok = "int" =>
                    /\ \A v \in named :
                          Bound(query'.eq_constraints, v, output.value.n)
                    /\ DOMAIN query'.eq_constraints =
                          DOMAIN query.eq_constraints \cup named
                    /\ \A v \in DOMAIN query.eq_constraints \ named :
                          query'.eq_constraints[v] = query.eq_constraints[v]
                    /\ query'.ge_constraints = query.ge_constraints
                    /\ query'.le_constraints = query.le_constraints
                /\ output.strict => query'.strict_outputs
       /\ Returned' =>
            ((\E i \in 1..Len(parse_results.outputs) : parse_results.outputs[i].strict)
                => query'.strict_outputs)]_vars

\* A compiled query with the output clause `only 60 <entity>`.
C6_Witness ==
    /\ Returned
    /\ \E i \in 1..Len(parse_results.outputs) :
          LET output == parse_results.outputs[i]
          IN  /\ output.strict
              /\ output.value = num_value(60)
              /\ "entity" \in output.keys
    /\ Bound(query.eq_constraints, "item:iron-rod", 60)
    /\ query.strict_outputs

(***************************************************************************)
(* C7.  Input clauses mirror output clauses with the sign inverted: a      *)
(* numeric value N adds ge_constraints[v] = -N for every var v the clause  *)
(* names, and `?` sets maximize_objective = false with coefficient -1 on   *)
(* every such var.                                                         *)
(***************************************************************************)
C7_InputMirrorsOutput ==
    [][Applies("inputs") =>
            LET input_ == parse_results.inputs[idx]
                named == NamedVars(CurrentPosition)
            IN  /\ input_.value.tok = "int" =>
                    /\ \A v \in named :
                          Bound(query'.ge_constraints, v, 0 - input_.value.n)
                    /\ DOMAIN query'.ge_constraints =
                          DOMAIN query.ge_constraints \cup named
                    /\ query'.eq_constraints = query.eq_constraints
                    /\ query'.le_constraints = query.le_constraints
                /\ input_.value = objective_value =>
                    /\ query'.maximize_objective = FALSE
                    /\ query'.objective_coefficients = [v \in named |-> -1]]_vars

\* A compiled query with a numeric input clause on a resolved entity and a
\* `?` input clause.
C7_Witness ==
    /\ Returned
    /\ \E i \in 1..Len(parse_results.inputs) :
          /\ parse_results.inputs[i].value = num_value(60)
          /\ "entity" \in parse_results.inputs[i].keys
    /\ \E i \in 1..Len(parse_results.inputs) :
          parse_results.inputs[i].value = objective_value
    /\ Bound(query.ge_constraints, "item:iron-ore", -60)

(***************************************************************************)
(* C8.  For every include clause each matched var v gets                   *)
(* ge_constraints[v] = 0 and the strictness flag of v's category is true   *)
(* in the compiled query; the flag of a category of which no var was       *)
(* included stays false.                                                   *)
(***************************************************************************)
C8_Includes ==
    Returned =>
        /\ \A v \in IncludedVars \cap Catalog : Bound(query.ge_constraints, v, 0)
        /\ query.strict_recipes = (IncludedVars \cap db_recipes # {})
        /\ query.strict_power_recipes = (IncludedVars \cap db_power_recipes # {})
        /\ query.strict_crafters = (IncludedVars \cap db_crafters # {})
        /\ query.strict_generators = (IncludedVars \cap db_generators # {})

\* A compiled query that includes a power recipe and no recipe.
C8_Witness ==
    /\ Returned
    /\ IncludedVars \cap db_power_recipes # {}
    /\ IncludedVars \cap db_recipes = {}
    /\ query.strict_power_recipes

(***************************************************************************)
(* C9.  For every exclude clause each matched var v gets                   *)
(* eq_constraints[v] = 0; an exclude of `byproducts` sets strict_outputs   *)
(* and adds no constraint entry.                                           *)
(***************************************************************************)
C9_Excludes ==
    [][Applies("excludes") =>
            LET exclude == parse_results.excludes[idx]
                named == NamedVars(CurrentPosition)
            IN  /\ \A v \in named : Bound(query'.eq_constraints, v, 0)
                /\ "byproducts" \in exclude.keys =>
                    /\ query'.strict_outputs
                    /\ query'.eq_constraints = query.eq_constraints
                    /\ query'.ge_constraints = query.ge_constraints
                    /\ query'.le_constraints = query.le_constraints]_vars

\* A compiled query that excludes byproducts and, in another clause, an entity.
C9_Witness ==
    /\ Returned
    /\ \E i \in 1..Len(parse_results.excludes) :
          "byproducts" \in parse_results.excludes[i].keys
    /\ \E i \in 1..Len(parse_results.excludes) :
          "entity" \in parse_results.excludes[i].keys
    /\ query.strict_outputs

MaxTokens == 2

PlainTokens == {W_iron, W_rod, W_screw, W_item}
RegexTokens == {<<".", "*">>}
Tokens == PlainTokens \cup RegexTokens

\* What may stand between two tokens: whitespace, hyphen, underscore, colon,
\* or the colon and blank of the human-readable names.
Separators == {SP, HY, <<"_">>, CO, CO \o SP}

Casings == {"lower", "upper", "title"}

AllowedTypeLists ==
    {{"item"}, {"resource", "item", "crafter", "generator"}, {"recipe", "power-recipe"}}

capitalize(s) == IF s = <<>> THEN s ELSE <<UpperChar(Head(s))>> \o Tail(s)

in_case(token, casing) ==
    CASE casing = "lower" -> token
      [] casing = "upper" -> upper(token)
      [] casing = "title" -> capitalize(token)

\* The tokens written out: seps[i] stands between token i and token i + 1.
RECURSIVE Typed(_, _, _)
Typed(toks, seps, casing) ==
    IF Len(toks) = 1
    THEN in_case(toks[1], casing)
    ELSE in_case(toks[1], casing) \o seps[1]
            \o Typed(Tail(toks), [i \in 1..(Len(seps) - 1) |-> seps[i + 1]], casing)

\* The same tokens in lower case with single blanks between them.
Canonical(toks) == Typed(toks, [i \in 1..(Len(toks) - 1) |-> SP], "lower")

ResolverInit ==
    /\ phrase_tokens \in UNION {[1..n -> Tokens] : n \in 1..MaxTokens}
    /\ phrase_types \in AllowedTypeLists
    /\ phrase = <<>>
    /\ phrase_matches = {}
    /\ parse_results = <<>>
    /\ query = OptimizationQuery
    /\ pc = "done"
    /\ idx = 1
    /\ error = NoError
    /\ OptimizationIdle /\ InfoIdle /\ RequestsIdle /\ ShownIdle

\* matches = self._get_matches(expr, allowed_types), for one way of typing
\* the phrase.
GetMatches ==
    /\ phrase = <<>>
    /\ \E seps \in [1..(Len(phrase_tokens) - 1) -> Separators], casing \in Casings :
          /\ phrase' = Typed(phrase_tokens, seps, casing)
          /\ phrase_matches' = _get_matches_text(phrase', phrase_types)
    /\ UNCHANGED <<phrase_tokens, phrase_types>>
    /\ UNCHANGED <<vars, optimization_vars, info_vars, requests, shown>>

ResolverNext == GetMatches

ResolverSpec == ResolverInit /\ [][ResolverNext]_every_var

Resolved == phrase # <<>>

\* C11 as stated: however the phrase is typed (letter case, and whitespace,
\* hyphen, underscore or colon between its tokens), _get_matches returns the
\* set it returns for the same tokens in lower case separated by blanks, so
\* any two ways of typing it resolve identically.
C11_Original ==
    Resolved => phrase_matches = _get_matches_text(Canonical(phrase_tokens), phrase_types)

\* C11 as amended: the same, for a phrase whose tokens are plain words, none
\* of them a regular expression.
C11_PlainPhrase ==
    (Resolved /\ \A i \in 1..Len(phrase_tokens) : phrase_tokens[i] \in PlainTokens) =>
        phrase_matches = _get_matches_text(Canonical(phrase_tokens), phrase_types)

\* "IRON_ROD" has been resolved to the iron rod.
C11_Witness ==
    /\ phrase = upper(W_iron) \o <<"_">> \o upper(W_rod)
    /\ phrase_matches = {"item:iron-rod"}

(***************************************************************************)
(* The catalog's recipe tables (ada/db.py, ada/recipe.py): what each       *)
(* recipe takes and gives per minute, where it is made, and the lookups    *)
(* the compiler uses.                                                      *)
(***************************************************************************)
items_values == <<"item:iron-ore", "item:iron-rod", "item:screw">>
recipes_values == <<"recipe:iron-rod", "recipe:screw", "recipe:alternate:cast-screw">>
power_recipes_values == <<"power-recipe:coal">>
crafters_values == <<"crafter:constructor">>
generators_values == <<"generator:coal-generator">>

minute_rate == 10

ingredients(recipe) ==
    CASE recipe = "recipe:iron-rod" -> ("item:iron-ore" :> minute_rate)
      [] recipe = "recipe:screw" -> ("item:iron-rod" :> minute_rate)
      [] recipe = "recipe:alternate:cast-screw" -> ("item:iron-ore" :> minute_rate)

products(recipe) ==
    CASE recipe = "recipe:iron-rod" -> ("item:iron-rod" :> minute_rate)
      [] recipe = "recipe:screw" -> ("item:screw" :> minute_rate)
      [] recipe = "recipe:alternate:cast-screw" -> ("item:screw" :> minute_rate)

crafter(recipe) == "crafter:constructor"
generator(power_recipe) == "generator:coal-generator"
is_alternate(recipe) == startswith(Spell[recipe], Spell["recipe:"] \o W_alternate \o CO)

\* The var without its type prefix.
slug(var) == after_colon(Spell[var])

recipes_for_product(var) ==
    SelectSeq(recipes_values, LAMBDA recipe : var \in DOMAIN products(recipe))

recipes_for_ingredient(var) ==
    SelectSeq(recipes_values, LAMBDA recipe : var \in DOMAIN ingredients(recipe))

(***************************************************************************)
(* The information, recipe and comparison queries: QueryParser.parse       *)
(* hands the parse results to the compiler of the query's kind, which      *)
(* returns an InfoQuery, a RecipeCompareQuery or a HelpQuery, or raises.   *)
(***************************************************************************)
\* The queries as their constructors leave them (ada/query.py).
InfoQuery == [vars |-> <<>>]
RecipeCompareQuery ==
    [product_item |-> None, base_recipe |-> None, related_recipes |-> <<>>,
     exclude_alternates |-> FALSE]
HelpQuery == [help |-> TRUE]

QueryKinds ==
    {"single-recipe", "recipe-for", "recipes-for", "recipes-from", "entity-details"}

QueryParseResults ==
    [kind : QueryKinds, entity : Exprs, exclude_alternates : {FALSE}]
    \cup [kind : {"recipe-compare"}, entity : Exprs, exclude_alternates : BOOLEAN]
    \cup [kind : {"help"}, entity : {""}, exclude_alternates : {FALSE}]

\* The orders in which a list built from a Python set may hold its elements.
Orders(S) ==
    {order \in [1..Cardinality(S) -> S] : \A e \in S : \E i \in DOMAIN order : order[i] = e}

\* [x for part in parts for x in part]
RECURSIVE Flatten(_)
Flatten(parts) == IF parts = <<>> THEN <<>> ELSE Head(parts) \o Flatten(Tail(parts))

QueryInit ==
    /\ parse_results \in QueryParseResults
    /\ query = None
    /\ pc = "parse"
    /\ idx = 1
    /\ error = NoError
    /\ OutsideCompilerIdle

\* return query
Return(q) ==
    /\ query' = q
    /\ pc' = "done"
    /\ UNCHANGED <<parse_results, idx, error>>

ParseHelp ==
    /\ Running("parse")
    /\ parse_results.kind = "help"
    /\ Return(HelpQuery)
    /\ UNCHANGED OutsideCompiler

ParseSingleRecipe ==
    /\ Running("parse")
    /\ parse_results.kind = "single-recipe"
    /\ LET matches == _get_matches(parse_results.entity, {"recipe"})
       IN  IF matches = {}
           THEN Raise("Could not parse recipe expression", parse_results.entity)
           ELSE \E order \in Orders(matches) : Return([vars |-> InfoQuery.vars \o order])
    /\ UNCHANGED OutsideCompiler

ParseRecipeFor ==
    /\ Running("parse")
    /\ parse_results.kind = "recipe-for"
    /\ LET matches == _get_matches(parse_results.entity, {"item"})
       IN  IF matches = {}
           THEN Raise("Could not parse item expression", parse_results.entity)
           ELSE \E order \in Orders(matches) :
                  LET all_vars ==
                          Flatten([i \in DOMAIN order |-> recipes_for_product(order[i])])
                      non_alternate_vars ==
                          SelectSeq(all_vars, LAMBDA recipe : ~is_alternate(recipe))
                  IN  IF Len(non_alternate_vars) > 0
                      THEN Return([vars |-> InfoQuery.vars \o non_alternate_vars])
                      ELSE Return([vars |-> InfoQuery.vars \o all_vars])
    /\ UNCHANGED OutsideCompiler

\* What one match adds to the query of `recipes for`.
recipes_for_match(var) ==
    IF startswith(Spell[var], W_item) \/ startswith(Spell[var], <<"r", "e", "s", "o", "u", "r", "c", "e">>)
    THEN recipes_for_product(var)
    ELSE IF startswith(Spell[var], W_crafter)
    THEN SelectSeq(recipes_values, LAMBDA recipe : crafter(recipe) = var)
    ELSE IF startswith(Spell[var], W_generator)
    THEN SelectSeq(power_recipes_values, LAMBDA power_recipe : generator(power_recipe) = var)
    ELSE <<>>

ParseRecipesFor ==
    /\ Running("parse")
    /\ parse_results.kind = "recipes-for"
    /\ LET matches == _get_matches(parse_results.entity,
                                   {"resource", "item", "crafter", "generator"})
       IN  IF matches = {}
           THEN Raise("Could not parse resource, item, crafter, or generator expression",
                      parse_results.entity)
           ELSE \E order \in Orders(matches) :
                  Return([vars |-> InfoQuery.vars
                            \o Flatten([i \in DOMAIN order |-> recipes_for_match(order[i])])])
    /\ UNCHANGED OutsideCompiler

ParseRecipesFrom ==
    /\ Running("parse")
    /\ parse_results.kind = "recipes-from"
    /\ LET matches == _get_matches(parse_results.entity, {"resource", "item"})
       IN  IF matches = {}
           THEN Raise("Could not parse resoure or item expression", parse_results.entity)
           ELSE \E order \in Orders(matches) :
                  Return([vars |-> InfoQuery.vars
                            \o Flatten([i \in DOMAIN order |-> recipes_for_ingredient(order[i])])])
    /\ UNCHANGED OutsideCompiler

\* The error naming only the first of the matched items.
MultipleItemsMatched_first_only(names) ==
    [msg |-> "Multiple items were matched:", expr |-> "",
     lines |-> <<<<" ", " ", " ">> \o names[1]>>,
     last_line |-> "Please repeat the command with a more specific item name."]

\* "Multiple items were matched:\n   " + "\n   ".join(names) + "\nPlease
\* repeat the command with a more specific item name.", line by line.
MultipleItemsMatched(names) ==
    [msg |-> "Multiple items were matched:", expr |-> "",
     lines |-> [i \in DOMAIN names |-> <<" ", " ", " ">> \o names[i]],
     last_line |-> "Please repeat the command with a more specific item name."]

\* The first recipe of the list whose slug is the product's, 0 if there is none.
base_recipe_index(recipes, product_item) ==
    IF \E i \in DOMAIN recipes : slug(recipes[i]) = slug(product_item)
    THEN CHOOSE i \in DOMAIN recipes :
            /\ slug(recipes[i]) = slug(product_item)
            /\ \A j \in 1..(i - 1) : slug(recipes[j]) # slug(product_item)
    ELSE 0

\* list.remove(list[i])
remove_at(list, i) == SubSeq(list, 1, i - 1) \o SubSeq(list, i + 1, Len(list))

\* The base recipe chosen, and left among the related recipes.
pick_base_recipe_kept(related_recipes, product_item) ==
    IF Len(related_recipes) = 1
    THEN [base_recipe |-> related_recipes[1], related_recipes |-> <<>>]
    ELSE LET i == base_recipe_index(related_recipes, product_item)
         IN  IF i = 0
             THEN [base_recipe |-> None, related_recipes |-> related_recipes]
             ELSE [base_recipe |-> related_recipes[i], related_recipes |-> related_recipes]

\* The base recipe among the producers (one or more), and the others.
pick_base_recipe(related_recipes, product_item) ==
    IF Len(related_recipes) = 1
    THEN [base_recipe |-> related_recipes[1], related_recipes |-> <<>>]
    ELSE LET i == base_recipe_index(related_recipes, product_item)
         IN  IF i = 0
             THEN [base_recipe |-> None, related_recipes |-> related_recipes]
             ELSE [base_recipe |-> related_recipes[i],
                   related_recipes |-> remove_at(related_recipes, i)]

ParseRecipeCompare ==
    /\ Running("parse")
    /\ parse_results.kind = "recipe-compare"
    /\ LET matches == _get_matches(parse_results.entity, {"item"})
       IN  IF matches = {}
           THEN Raise("Could not parse compare recipes for expression", parse_results.entity)
           ELSE IF Cardinality(matches) > 1
           THEN \E order \in Orders(matches) :
                  /\ error' = MultipleItemsMatched(
                                 [i \in DOMAIN order |-> human_readable_name(order[i])])
                  /\ UNCHANGED <<parse_results, query, pc, idx>>
           ELSE LET product_item == CHOOSE match \in matches : TRUE
                    related_recipes == recipes_for_product(product_item)
                IN  IF Len(related_recipes) = 0
                    THEN Raise("Could not find any recipe that produces", product_item)
                    ELSE LET picked == pick_base_recipe(related_recipes, product_item)
                         IN  IF picked.base_recipe = None
                             THEN Raise("Could not find base recipe for", product_item)
                             ELSE Return([product_item |-> product_item,
                                          base_recipe |-> picked.base_recipe,
                                          related_recipes |-> picked.related_recipes,
                                          exclude_alternates |->
                                              parse_results.exclude_alternates])
    /\ UNCHANGED OutsideCompiler

ParseEntityDetails ==
    /\ Running("parse")
    /\ parse_results.kind = "entity-details"
    /\ LET non_recipe_matches == _get_matches(parse_results.entity,
                                              {"resource", "item", "crafter", "generator"})
           recipe_matches == _get_matches(parse_results.entity, {"recipe", "power-recipe"})
       IN  IF non_recipe_matches # {}
           THEN \E order \in Orders(non_recipe_matches) :
                  Return([vars |-> InfoQuery.vars \o order])
           ELSE IF recipe_matches = {}
           THEN Raise("Could not parse entity expression", parse_results.entity)
           ELSE \E order \in Orders(recipe_matches) :
                  Return([vars |-> InfoQuery.vars \o order])
    /\ UNCHANGED OutsideCompiler

QueryNext ==
    \/ ParseHelp
    \/ ParseSingleRecipe
    \/ ParseRecipeFor
    \/ ParseRecipesFor
    \/ ParseRecipesFrom
    \/ ParseRecipeCompare
    \/ ParseEntityDetails

QuerySpec == QueryInit /\ [][QueryNext]_every_var

\* The items a recipe-compare query's expression names, and the recipes
\* that produce an item.
ComparedItems == _get_matches(parse_results.entity, {"item"})
Producers(item) == {recipe \in db_recipes : item \in DOMAIN products(recipe)}
Range(list) == {list[i] : i \in DOMAIN list}

\* C12: a recipe-compare query that compiles has for base recipe the sole
\* producer of its item when there is one producer, otherwise the producer
\* whose slug is the item's; the base recipe is not among the related
\* recipes, and the related recipes with the base recipe are exactly the
\* producers.
C12_BaseRecipe ==
    (parse_results.kind = "recipe-compare" /\ Returned) =>
        LET producers == Producers(query.product_item)
        IN  /\ producers # {}
            /\ query.base_recipe \in producers
            /\ Cardinality(producers) > 1 =>
                  slug(query.base_recipe) = slug(query.product_item)
            /\ query.base_recipe \notin Range(query.related_recipes)
            /\ Range(query.related_recipes) \cup {query.base_recipe} = producers
            /\ Cardinality(producers) = 1 => query.related_recipes = <<>>

\* `compare recipes for screws` has compiled: Recipe: Screw is the base
\* recipe, the cast screw the one related recipe.
C12_Witness ==
    /\ parse_results.kind = "recipe-compare"
    /\ Returned
    /\ query.product_item = "item:screw"
    /\ query.base_recipe = "recipe:screw"
    /\ query.related_recipes = <<"recipe:alternate:cast-screw">>

\* C13: a recipe-compare query whose expression matches more than one item
\* fails, its error naming every matched item by its human-readable name;
\* no query is returned and no product item is picked.
C13_AmbiguousItem ==
    (parse_results.kind = "recipe-compare" /\ Cardinality(ComparedItems) > 1
        /\ (Returned \/ Failed)) =>
        /\ Failed
        /\ ~Returned
        /\ query = None
        /\ error.msg = "Multiple items were matched:"
        /\ \A item \in ComparedItems :
              \E i \in DOMAIN error.lines :
                 error.lines[i] = <<" ", " ", " ">> \o human_readable_name(item)

\* `compare recipes for .*` has failed, with Iron Rod and Screw both named
\* in the error.
C13_Witness ==
    /\ parse_results.kind = "recipe-compare"
    /\ Failed
    /\ ComparedItems = {"item:iron-rod", "item:screw"}
    /\ Len(error.lines) = 2

\* C19: the entity sequence of a compiled InfoQuery holds no var twice.
C19_NoDuplicateVars ==
    (parse_results.kind \in QueryKinds /\ Returned) =>
        \A i, j \in DOMAIN query.vars : query.vars[i] = query.vars[j] => i = j

(***************************************************************************)
(* OptimizationResult (src/ada/result.py): what the solver returned, read  *)
(* into inputs, outputs, recipes, crafters, generators and net power, and  *)
(* rendered as a text, as a message and as a flow graph.                   *)
(***************************************************************************)
\* pulp's solver statuses.
LpStatusNotSolved == "Not Solved"
LpStatusOptimal == "Optimal"
LpStatusInfeasible == "Infeasible"
LpStatusUnbounded == "Unbounded"
LpStatusUndefined == "Undefined"
LpStatuses ==
    {LpStatusNotSolved, LpStatusOptimal, LpStatusInfeasible, LpStatusUnbounded,
     LpStatusUndefined}

\* LpVariable.value(): <<>> is None (the variable has no value), <<n>> is
\* the number n.
NoValue == <<>>
Value(n) == <<n>>
number(value) == value[1]

LpVars == Catalog \cup {"power"}

\* The values a solved variable may have: items per minute (negative for an
\* item taken from outside), recipes and buildings in numbers built, power
\* in MW.  A variable that is in no constraint keeps no value.
LpValues(var) ==
    CASE var = "item:iron-ore" -> {Value(-20), Value(0)}
      [] var = "item:iron-rod" -> {Value(-20), Value(0), Value(20)}
      [] var = "item:screw" -> {Value(0), Value(20)}
      [] var = "recipe:iron-rod" -> {Value(0), Value(5)}
      [] var = "recipe:screw" -> {Value(0), Value(3)}
      [] var = "recipe:alternate:cast-screw" -> {Value(0), Value(1)}
      [] var = "power-recipe:coal" -> {Value(0), Value(2)}
      [] var = "crafter:constructor" -> {NoValue, Value(4)}
      [] var = "generator:coal-generator" -> {Value(0), Value(2)}
      [] var = "power" -> {NoValue, Value(150)}

\* The functions on the keys of sets_ with f[k] \in sets_[k].
RECURSIVE Choices(_)
Choices(sets_) ==
    IF DOMAIN sets_ = {}
    THEN {<<>>}
    ELSE LET k == CHOOSE key \in DOMAIN sets_ : TRUE
         IN  {(k :> v) @@ rest :
                 v \in sets_[k],
                 rest \in Choices([key \in DOMAIN sets_ \ {k} |-> sets_[key]])}

Solved == Choices([var \in LpVars |-> LpValues(var)])

\* No variable has a value: the solver found nothing.
Unsolved == [var \in LpVars |-> NoValue]

\* What a solver that gave up may leave behind: nothing, or values with
\* every recipe at work.
Abandoned ==
    {Unsolved} \cup {vars_ \in Solved : \A recipe \in db_recipes : vars_[recipe] # Value(0)}

fuel_item(power_recipe) == "item:screw"
fuel_minute_rate == 10
power_production == 75

\* self.__vars[var].value() and self.__vars[var].value() != 0, without the
\* test that there is a value.
__has_value_not_zero(vars_, var) == vars_[var] # Value(0)

__has_value(vars_, var) == vars_[var] # NoValue /\ vars_[var] # Value(0)

__get_value(vars_, var) == vars_[var]

\* {item.var(): (item, value) ...}: the part of the values on the entries
\* that pass the test.
Extract(vars_, objs, test(_)) == [var \in {obj \in objs : test(obj)} |-> vars_[var]]

\* The inputs with the solved values as they are.
inputs_of_as_solved(vars_) ==
    [var \in {item \in db_items :
                __has_value(vars_, item) /\ number(__get_value(vars_, item)) < 0} |->
        Value(number(__get_value(vars_, var)))]

inputs_of(vars_) ==
    [var \in {item \in db_items :
                __has_value(vars_, item) /\ number(__get_value(vars_, item)) < 0} |->
        Value(-number(__get_value(vars_, var)))]

outputs_of(vars_) ==
    [var \in {item \in db_items :
                __has_value(vars_, item) /\ number(__get_value(vars_, item)) > 0} |->
        __get_value(vars_, var)]

with_value(vars_, objs) ==
    [var \in {obj \in objs : __has_value(vars_, obj)} |-> __get_value(vars_, var)]

net_power_of(vars_) ==
    IF __has_value(vars_, "power") THEN __get_value(vars_, "power") ELSE Value(0)

\* A comparison of None with a number raises TypeError: it happens where a
\* value that passed __has_value is compared and is None.
TypeErrorIn(vars_, objs) ==
    \E obj \in objs : __has_value(vars_, obj) /\ __get_value(vars_, obj) = NoValue

OptimizationResult(vars_, status, objective) ==
    [vars |-> vars_,
     status |-> status,
     objective |-> objective,
     inputs |-> inputs_of(vars_),
     outputs |-> outputs_of(vars_),
     recipes |-> with_value(vars_, db_recipes),
     crafters |-> with_value(vars_, db_crafters),
     generators |-> with_value(vars_, db_generators),
     net_power |-> net_power_of(vars_)]

\* __get_vars: a line "<name>: <amount><suffix>" for each of objs, in their
\* order, whose value passes check_value.
Abs(n) == IF n < 0 THEN -n ELSE n

\* The check_value lambdas: val < 0, val > 0, True.
negative == "val < 0"
positive == "val > 0"
any == "True"

passes(check_value, val) ==
    CASE check_value = negative -> val < 0
      [] check_value = positive -> val > 0
      [] check_value = any -> TRUE

__get_vars(self, objs, check_value, suffix) ==
    LET kept == SelectSeq(objs, LAMBDA obj :
                    __has_value(self.vars, obj)
                        /\ passes(check_value, number(__get_value(self.vars, obj))))
    IN  [i \in DOMAIN kept |->
            [line |-> "", name |-> kept[i],
             amount |-> Value(Abs(number(__get_value(self.vars, kept[i])))),
             suffix |-> suffix]]

Line(line) == [line |-> line, name |-> "", amount |-> NoValue, suffix |-> ""]

__get_section(self, title, objs, check_value, suffix) ==
    LET vars_ == __get_vars(self, objs, check_value, suffix)
    IN  IF Len(vars_) = 0 THEN <<>> ELSE <<Line(title)>> \o vars_ \o <<Line("")>>


__string_solution(self) ==
    <<Line("=== OPTIMAL SOLUTION FOUND ===")>>
        \o __get_section(self, "INPUT", items_values, negative, "/m")
        \o __get_section(self, "OUTPUT", items_values, positive, "/m")
        \o __get_section(self, "RECIPES", recipes_values, any, "")
        \o __get_section(self, "CRAFTERS", crafters_values, any, "")
        \o __get_section(self, "GENERATORS", generators_values, any, "")
        \o <<Line("NET POWER"),
             [line |-> "", name |-> "", amount |-> net_power_of(self.vars), suffix |-> " MW"],
             Line(""),
             Line("OBJECTIVE VALUE"),
             [line |-> "", name |-> "", amount |-> self.objective, suffix |-> ""]>>

NoSolutionFound == "No solution has been found."
SolutionIsInfeasible ==
    "Solution is infeasible, try removing a constraint or allowing a byproduct (e.g. rubber >= 0)"
SolutionIsUnbounded ==
    "Solution is unbounded, try adding a constraint or replacing '?' with a concrete value (e.g. 1000)"

__str__(self) ==
    CASE self.status = LpStatusNotSolved -> <<Line(NoSolutionFound)>>
      [] self.status = LpStatusUndefined -> <<Line(NoSolutionFound)>>
      [] self.status = LpStatusInfeasible -> <<Line(SolutionIsInfeasible)>>
      [] self.status = LpStatusUnbounded -> <<Line(SolutionIsUnbounded)>>
      [] OTHER -> __string_solution(self)

(***************************************************************************)
(* generate_graph_viz.  sources and sinks map an item to the nodes that    *)
(* give it or take it, each with its amount per minute.  A node is named   *)
(* by the var of its item, recipe or power recipe.                         *)
(***************************************************************************)
source_nodes(vars_, item_var) ==
    {item \in {item_var} :
        __has_value(vars_, item) /\ number(__get_value(vars_, item)) < 0}
    \cup {recipe \in db_recipes :
            __has_value(vars_, recipe) /\ item_var \in DOMAIN products(recipe)}

sink_nodes(vars_, item_var) ==
    {item \in {item_var} :
        __has_value(vars_, item) /\ ~(number(__get_value(vars_, item)) < 0)}
    \cup {recipe \in db_recipes :
            __has_value(vars_, recipe) /\ item_var \in DOMAIN ingredients(recipe)}
    \cup {power_recipe \in db_power_recipes :
            __has_value(vars_, power_recipe) /\ fuel_item(power_recipe) = item_var}

source_amount(vars_, item_var, node) ==
    IF node \in db_items
    THEN number(__get_value(vars_, node))
    ELSE number(__get_value(vars_, node)) * products(node)[item_var]

sink_amount(vars_, item_var, node) ==
    IF node \in db_items
    THEN number(__get_value(vars_, node))
    ELSE IF node \in db_recipes
    THEN number(__get_value(vars_, node)) * ingredients(node)[item_var]
    ELSE number(__get_value(vars_, node)) * fuel_minute_rate

sources_of(vars_) ==
    [item_var \in {item \in db_items : source_nodes(vars_, item) # {}} |->
        [node \in source_nodes(vars_, item_var) |-> source_amount(vars_, item_var, node)]]

sinks_of(vars_) ==
    [item_var \in {item \in db_items : sink_nodes(vars_, item) # {}} |->
        [node \in sink_nodes(vars_, item_var) |-> sink_amount(vars_, item_var, node)]]

\* The sum of a dict's values.
RECURSIVE SumValues(_)
SumValues(d) ==
    IF DOMAIN d = {}
    THEN 0
    ELSE LET k == CHOOSE key \in DOMAIN d : TRUE
         IN  d[k] + SumValues([key \in DOMAIN d \ {k} |-> d[key]])

\* A quotient num / den, kept exact.
Quotient(num, den) == [num |-> num, den |-> den]
Times(q, n) == [num |-> q.num * n, den |-> q.den]

\* The source's amount over the number of sinks, as if the sinks shared
\* alike.
multiplier_per_sink(source_amount_, item_sinks) ==
    Quotient(source_amount_, Cardinality(DOMAIN item_sinks))

\* multiplier = source_amount / total_sink_amount
multiplier(source_amount_, item_sinks) ==
    Quotient(source_amount_, SumValues(item_sinks))

\* The items with a source and a sink: the ones the edges are drawn for.
connected_items(vars_) == DOMAIN sources_of(vars_) \cap DOMAIN sinks_of(vars_)

item_edges(vars_) ==
    LET sources == sources_of(vars_)
        sinks == sinks_of(vars_)
    IN  UNION {UNION {{[source |-> source, sink |-> sink, item |-> item_var,
                        amount |-> Times(multiplier(sources[item_var][source],
                                                    sinks[item_var]),
                                         sinks[item_var][sink])] :
                          sink \in DOMAIN sinks[item_var]} :
                      source \in DOMAIN sources[item_var]} :
                 item_var \in connected_items(vars_)}

power_edges(vars_) ==
    {[source |-> power_recipe, sink |-> "power",
      amount |-> number(__get_value(vars_, power_recipe)) * power_production] :
        power_recipe \in {p \in db_power_recipes : __has_value(vars_, p)}}

\* A division by a total sink amount of zero raises ZeroDivisionError.
ZeroDivisionIn(vars_) ==
    \E item_var \in connected_items(vars_) : SumValues(sinks_of(vars_)[item_var]) = 0

generate_graph_viz(self) ==
    [nodes |-> {var \in db_items \cup db_recipes \cup db_power_recipes :
                    __has_value(self.vars, var)} \cup {"power"},
     edges |-> item_edges(self.vars),
     power_edges |-> power_edges(self.vars),
     net_power |-> net_power_of(self.vars)]

\* ResultMessage() (ada/result_message.py) and discord's Embed.
Embed(title) == [title |-> title, description |-> None, fields |-> <<>>, footer |-> None]
ResultMessage == [embed |-> None, content |-> None, file |-> None, reactions |-> <<>>]

Field(name, value) == [name |-> name, value |-> value]

\* The fields __solution_message adds to the embed: the sections with an
\* entry.
solution_fields(self) ==
    LET inputs == __get_vars(self, items_values, negative, "/m")
        outputs == __get_vars(self, items_values, positive, "/m")
        recipes == __get_vars(self, recipes_values, any, "")
        buildings == __get_vars(self, crafters_values, any, "")
                        \o __get_vars(self, generators_values, any, "")
    IN  (IF Len(inputs) > 0 THEN <<Field("Inputs", inputs)>> ELSE <<>>)
        \o (IF Len(outputs) > 0 THEN <<Field("Outputs", outputs)>> ELSE <<>>)
        \o (IF Len(recipes) > 0 THEN <<Field("Recipes", recipes)>> ELSE <<>>)
        \o (IF Len(buildings) > 0 THEN <<Field("Buildings", buildings)>> ELSE <<>>)

\* The navigation trail (ada/breadcrumbs.py): the queries that led here and
\* the page of the list shown.
Breadcrumbs(queries) == [queries |-> queries, page |-> 1]

OptimizationInit ==
    /\ \/ lp \in [status : {LpStatusOptimal}, vars : Solved, objective : {Value(60)}]
       \/ lp \in [status : LpStatuses \ {LpStatusOptimal}, vars : Abandoned,
                  objective : {NoValue}]
    /\ opt = None
    /\ text = None
    /\ message = None
    /\ output_gv_png = None
    /\ exception = None
    /\ called = {}
    /\ breadcrumbs = Breadcrumbs(<<"produce 60 iron rods">>)
    /\ InfoResultIdle
    /\ parse_results = <<>>
    /\ query = OptimizationQuery
    /\ pc = "done"
    /\ idx = 1
    /\ error = NoError
    /\ ResolverIdle /\ RequestsIdle /\ ShownIdle

OutsideOptimization == <<vars, resolver_vars, info_vars, requests, shown>>

\* result = OptimizationResult(db, vars_, prob, status, query)
Construct ==
    /\ called = {}
    /\ exception = None
    /\ IF TypeErrorIn(lp.vars, db_items)
       THEN exception' = "TypeError" /\ UNCHANGED <<opt, called>>
       ELSE /\ opt' = OptimizationResult(lp.vars, lp.status, lp.objective)
            /\ called' = {"__init__"}
            /\ UNCHANGED exception
    /\ UNCHANGED <<lp, text, message, output_gv_png>>
    /\ UNCHANGED OutsideOptimization

\* str(result)
Str ==
    /\ "__init__" \in called
    /\ exception = None
    /\ IF opt.status = LpStatusOptimal /\ TypeErrorIn(opt.vars, LpVars)
       THEN exception' = "TypeError" /\ UNCHANGED <<text, called>>
       ELSE /\ text' = __str__(opt)
            /\ called' = called \cup {"__str__"}
            /\ UNCHANGED exception
    /\ UNCHANGED <<lp, opt, message, output_gv_png>>
    /\ UNCHANGED OutsideOptimization

\* result.message(breadcrumbs)
Message ==
    /\ "__init__" \in called
    /\ exception = None
    /\ IF opt.status = LpStatusOptimal
       THEN IF TypeErrorIn(opt.vars, LpVars)
            THEN exception' = "TypeError" /\ UNCHANGED <<message, output_gv_png, called>>
            ELSE IF ZeroDivisionIn(opt.vars)
            THEN exception' = "ZeroDivisionError"
                    /\ UNCHANGED <<message, output_gv_png, called>>
            ELSE /\ output_gv_png' = generate_graph_viz(opt)
                 /\ message' =
                        [ResultMessage EXCEPT
                            !.embed = [Embed("Optimization Query") EXCEPT
                                          !.description = " ",
                                          !.fields = solution_fields(opt)],
                            !.file = output_gv_png',
                            !.content = breadcrumbs]
                 /\ called' = called \cup {"message"}
                 /\ UNCHANGED exception
       ELSE /\ message' = [ResultMessage EXCEPT !.embed = Embed(__str__(opt)),
                                                !.content = breadcrumbs]
            /\ called' = called \cup {"message"}
            /\ UNCHANGED <<output_gv_png, exception>>
    /\ UNCHANGED <<lp, opt, text>>
    /\ UNCHANGED OutsideOptimization

OptimizationNext ==
    \/ Construct
    \/ Str
    \/ Message

OptimizationSpec == OptimizationInit /\ [][OptimizationNext]_every_var

Constructed == "__init__" \in called

\* A variable of the solved problem has a value and it is not zero.
NonZero(var) == lp.vars[var] # NoValue /\ lp.vars[var] # Value(0)

\* a / b + c / d, and the sum of the amounts of a set of edges.
Plus(q, r) == Quotient(q.num * r.den + r.num * q.den, q.den * r.den)

RECURSIVE SumAmounts(_)
SumAmounts(edges) ==
    IF edges = {}
    THEN Quotient(0, 1)
    ELSE LET e == CHOOSE edge \in edges : TRUE
         IN  Plus(e.amount, SumAmounts(edges \ {e}))

\* The quotient q is the number n.
Is(q, n) == q.den # 0 /\ q.num = n * q.den

\* The flow graph the message of an optimal result was sent with, and the
\* items in it whose sources give in total what its sinks take.
FlowGraphDrawn == "message" \in called /\ lp.status = LpStatusOptimal

Balanced(item_var) ==
    SumValues(sources_of(lp.vars)[item_var]) = SumValues(sinks_of(lp.vars)[item_var])

EdgesOf(item_var) == {e \in output_gv_png.edges : e.item = item_var}

\* C14: in the flow graph, for every item with sources and sinks whose
\* total source amount equals its total sink amount, there is one edge per
\* source and sink, carrying source amount * sink amount / total sink
\* amount; the edges leaving a source sum to the source's amount and the
\* edges entering a sink sum to the sink's amount.
C14_FlowConservation ==
    FlowGraphDrawn =>
        \A item_var \in DOMAIN sources_of(lp.vars) \cap DOMAIN sinks_of(lp.vars) :
            Balanced(item_var) =>
                LET sources == sources_of(lp.vars)[item_var]
                    sinks == sinks_of(lp.vars)[item_var]
                    total_sink_amount == SumValues(sinks)
                IN  /\ \A source \in DOMAIN sources, sink \in DOMAIN sinks :
                          LET drawn == {e \in EdgesOf(item_var) :
                                            e.source = source /\ e.sink = sink}
                          IN  /\ Cardinality(drawn) = 1
                              /\ \A e \in drawn :
                                    /\ e.amount.den # 0
                                    /\ e.amount.num * total_sink_amount
                                          = sources[source] * sinks[sink] * e.amount.den
                    /\ \A source \in DOMAIN sources :
                          Is(SumAmounts({e \in EdgesOf(item_var) : e.source = source}),
                             sources[source])
                    /\ \A sink \in DOMAIN sinks :
                          Is(SumAmounts({e \in EdgesOf(item_var) : e.sink = sink}),
                             sinks[sink])

\* The graph is drawn with screws coming from two recipes, 30 and 10 a
\* minute, and going 20 to the output and 20 to the generators: the edges
\* carry 15, 15, 5 and 5.
C14_Witness ==
    /\ FlowGraphDrawn
    /\ "item:screw" \in DOMAIN sources_of(lp.vars) \cap DOMAIN sinks_of(lp.vars)
    /\ sources_of(lp.vars)["item:screw"]
          = ("recipe:screw" :> 30) @@ ("recipe:alternate:cast-screw" :> 10)
    /\ sinks_of(lp.vars)["item:screw"] = ("item:screw" :> 20) @@ ("power-recipe:coal" :> 20)
    /\ \A e \in EdgesOf("item:screw") :
          Is(e.amount, IF e.source = "recipe:screw" THEN 15 ELSE 5)
    /\ Cardinality(EdgesOf("item:screw")) = 4

CannedText(status) ==
    CASE status = LpStatusInfeasible -> SolutionIsInfeasible
      [] status = LpStatusUnbounded -> SolutionIsUnbounded
      [] status \in {LpStatusNotSolved, LpStatusUndefined} -> NoSolutionFound

\* C15: with a solver status other than optimal, constructing the result,
\* str() and message() raise nothing, draw no flow graph and give the canned
\* text of the status, also when no solver variable has a value.
C15_NotOptimal ==
    lp.status # LpStatusOptimal =>
        /\ exception = None
        /\ output_gv_png = None
        /\ "__str__" \in called => text = <<Line(CannedText(lp.status))>>
        /\ "message" \in called =>
              /\ message.embed.title = <<Line(CannedText(lp.status))>>
              /\ message.file = None

\* A result of a problem the solver did not solve, no variable with a
\* value, has given its text and its message.
C15_Witness ==
    /\ lp.status = LpStatusNotSolved
    /\ lp.vars = Unsolved
    /\ called = {"__init__", "__str__", "message"}
    /\ text = <<Line(NoSolutionFound)>>

\* C18: after an optimal solve the inputs are the items with a negative
\* value, held with the positive magnitude, the outputs the items with a
\* positive value, so that they are disjoint and together the items with a
\* non-zero value; recipes, crafters and generators are the entries of
\* their kind with a non-zero value; net power is the value of `power`, 0
\* when it has none.
C18_Extracted ==
    (Constructed /\ lp.status = LpStatusOptimal) =>
        /\ DOMAIN opt.inputs \cap DOMAIN opt.outputs = {}
        /\ DOMAIN opt.inputs \cup DOMAIN opt.outputs = {item \in db_items : NonZero(item)}
        /\ \A item \in db_items :
              /\ item \in DOMAIN opt.inputs <=>
                    (NonZero(item) /\ number(lp.vars[item]) < 0)
              /\ item \in DOMAIN opt.inputs =>
                    /\ number(opt.inputs[item]) > 0
                    /\ number(opt.inputs[item]) = -number(lp.vars[item])
              /\ item \in DOMAIN opt.outputs <=>
                    (NonZero(item) /\ number(lp.vars[item]) > 0)
              /\ item \in DOMAIN opt.outputs => opt.outputs[item] = lp.vars[item]
        /\ opt.recipes = [var \in {r \in db_recipes : NonZero(r)} |-> lp.vars[var]]
        /\ opt.crafters = [var \in {c \in db_crafters : NonZero(c)} |-> lp.vars[var]]
        /\ opt.generators = [var \in {g \in db_generators : NonZero(g)} |-> lp.vars[var]]
        /\ opt.net_power = IF lp.vars["power"] = NoValue THEN Value(0) ELSE lp.vars["power"]

\* An optimal result has been read: iron ore taken, screws given, a
\* constructor without a value and no value for power.
C18_Witness ==
    /\ Constructed
    /\ lp.status = LpStatusOptimal
    /\ opt.inputs = ("item:iron-ore" :> Value(20))
    /\ opt.outputs = ("item:screw" :> Value(20))
    /\ lp.vars["crafter:constructor"] = NoValue
    /\ opt.crafters = <<>>
    /\ lp.vars["power"] = NoValue
    /\ opt.net_power = Value(0)

(***************************************************************************)
(* InfoResult: the matches of an information query, shown as a paged list  *)
(* and navigated with reactions.                                           *)
(***************************************************************************)

\* Human-readable names of catalog entities, in alphabetical order.  An
\* entity is told from the others by its name.
Names ==
    <<"Cable", "Coal", "Concrete", "Copper Ingot", "Copper Ore", "Copper Sheet",
      "Iron Ingot", "Iron Ore", "Iron Plate", "Iron Rod", "Limestone",
      "Modular Frame", "Motor", "Plastic", "Quickwire", "Reinforced Iron Plate",
      "Rotor", "Rubber", "Screw", "Stator", "Steel Beam", "Wire">>

\* The place of a name in alphabetical order: what sorted() compares.
name_order(var) == CHOOSE i \in DOMAIN Names : Names[i] = var

\* The largest number of matches looked at.
MaxVars == 19

num_on_page == 9

INFO == "INFO"
PREVIOUS_PAGE == "PREVIOUS_PAGE"
NEXT_PAGE == "NEXT_PAGE"
NUM_EMOJI ==
    <<"ZERO", "ONE", "TWO", "THREE", "FOUR", "FIVE", "SIX", "SEVEN", "EIGHT", "NINE">>
Emojis == {INFO, PREVIOUS_PAGE, NEXT_PAGE} \cup Range(NUM_EMOJI)

\* list.index(x), counted from 0.
index_of(list, x) == (CHOOSE i \in DOMAIN list : list[i] = x) - 1

Front(list) == SubSeq(list, 1, Len(list) - 1)
Last(list) == list[Len(list)]

\* sorted(vars_, key=human_readable_name): a stable insertion sort.
insort(list, var) ==
    LET before == Cardinality({i \in DOMAIN list :
                                  name_order(list[i]) <= name_order(var)})
    IN  SubSeq(list, 1, before) \o <<var>> \o SubSeq(list, before + 1, Len(list))

RECURSIVE sorted(_)
sorted(list) ==
    IF list = <<>> THEN <<>> ELSE insort(sorted(Front(list)), Last(list))

\* InfoResult.__init__
InfoResult(vars_, raw_query) ==
    [_vars |-> sorted(vars_),
     _raw_query |-> raw_query,
     _add_reaction_selectors |-> FALSE]

\* The number of pages with a page too many when the last page is full.
_num_pages_and_one(self) == Len(self._vars) \div num_on_page + 1

\* math.ceil(len(self._vars) / InfoResult.num_on_page)
_num_pages(self) == (Len(self._vars) + num_on_page - 1) \div num_on_page

_footer(self, page) == [page |-> page, of |-> _num_pages(self)]

\* list[start:last] with 0 <= start: a slice stops at the end of the list.
Slice(list, start, last) ==
    SubSeq(list, start + 1, IF last < Len(list) THEN last ELSE Len(list))

\* The page with one entry more than its own: it shows the first entry of
\* the next page too.
vars_on_page_and_next(self, page) ==
    Slice(self._vars, (page - 1) * num_on_page, (page - 1) * num_on_page + num_on_page + 1)

\* var_names[start_index:last_index]
vars_on_page(self, page) ==
    Slice(self._vars, (page - 1) * num_on_page, (page - 1) * num_on_page + num_on_page)

\* InfoResult._get_info_page
_get_info_page(self, breadcrumbs_) ==
    LET on_page == vars_on_page(self, breadcrumbs_.page)
        out == [i \in DOMAIN on_page |->
                   [prefix |-> IF self._add_reaction_selectors
                               THEN NUM_EMOJI[i + 1] ELSE "",
                    var |-> on_page[i]]]
        reactions ==
            IF self._add_reaction_selectors
            THEN [i \in DOMAIN on_page |-> NUM_EMOJI[i + 1]]
            ELSE (IF breadcrumbs_.page > 1 THEN <<PREVIOUS_PAGE>> ELSE <<>>)
                    \o <<INFO>>
                    \o (IF breadcrumbs_.page < _num_pages(self)
                        THEN <<NEXT_PAGE>> ELSE <<>>)
    IN  [ResultMessage EXCEPT
            !.embed = [Embed(<<"Found", Len(self._vars), "matches:">>) EXCEPT
                          !.description = out,
                          !.footer = _footer(self, breadcrumbs_.page)],
            !.reactions = reactions,
            !.content = breadcrumbs_]

\* InfoResult.message
info_message_of(self, breadcrumbs_) ==
    IF Len(self._vars) = 0
    THEN [ResultMessage EXCEPT !.embed = Embed(<<"No matches found">>),
                               !.content = breadcrumbs_]
    ELSE IF Len(self._vars) > 1
    THEN _get_info_page(self, breadcrumbs_)
    ELSE [ResultMessage EXCEPT !.embed = Embed(<<self._vars[1]>>),
                               !.content = breadcrumbs_,
                               !.reactions = <<PREVIOUS_PAGE>>]

\* list[i] of Python: a negative index counts from the end, an index outside
\* the list raises IndexError.
InRange(list, i) == -Len(list) <= i /\ i < Len(list)
item_at(list, i) == IF i < 0 THEN list[Len(list) + i + 1] ELSE list[i + 1]

\* InfoResult._get_var_on_page: the index into self._vars
var_index(page, index) == (page - 1) * num_on_page + index

\* Breadcrumbs: the queries asked so far and the page of the current one.
has_prev_query(breadcrumbs_) == Len(breadcrumbs_.queries) > 1
goto_prev_query(breadcrumbs_) ==
    [queries |-> Front(breadcrumbs_.queries), page |-> 1]
primary_query(breadcrumbs_) == Last(breadcrumbs_.queries)
goto_next_page(breadcrumbs_) == [breadcrumbs_ EXCEPT !.page = @ + 1]
goto_prev_page(breadcrumbs_) == [breadcrumbs_ EXCEPT !.page = @ - 1]
add_query(breadcrumbs_, q) ==
    [queries |-> Append(breadcrumbs_.queries, q), page |-> 1]

\* The lists of matches an information query hands over: the first n
\* entities in some order of a set, or with a recipe appended twice.
Take(n) == SubSeq(Names, 1, n)
Rotated(list, k) == SubSeq(list, k + 1, Len(list)) \o SubSeq(list, 1, k)
Reversed(list) == [i \in DOMAIN list |-> list[Len(list) + 1 - i]]
Repeated(list) == Reversed(Front(list)) \o <<list[1]>>

InfoInputs ==
    {<<>>} \cup UNION {
        {Rotated(Take(n), 0), Rotated(Take(n), 1), Rotated(Take(n), n \div 2),
         Reversed(Take(n)), Repeated(Take(n))} : n \in 1..MaxVars}

InfoRawQuery == ".*"

OutsideInfo == <<vars, resolver_vars, optimization_vars, requests, shown>>

InfoInit ==
    /\ matched_vars \in InfoInputs
    /\ info = InfoResult(matched_vars, InfoRawQuery)
    /\ breadcrumbs \in {Breadcrumbs(<<InfoRawQuery>>),
                        Breadcrumbs(<<"recipes for iron rod", InfoRawQuery>>)}
    /\ info_message = <<>>
    /\ selected_query = <<>>
    /\ info_exception = None
    /\ parse_results = <<>>
    /\ query = None
    /\ pc = "done"
    /\ idx = 1
    /\ error = NoError
    /\ ResolverIdle /\ OptimizationIdle /\ RequestsIdle /\ ShownIdle

InResult == selected_query = <<>> /\ info_exception = None

\* result.message(breadcrumbs)
InfoMessage ==
    /\ InResult
    /\ info_message' = <<info_message_of(info, breadcrumbs)>>
    /\ UNCHANGED <<matched_vars, info, breadcrumbs, selected_query, info_exception>>
    /\ UNCHANGED OutsideInfo

\* result.handle_reaction(emoji, breadcrumbs) on the message shown
HandleReaction(emoji) ==
    /\ InResult
    /\ info_message # <<>>
    /\ IF emoji = INFO
       THEN /\ info' = [info EXCEPT !._add_reaction_selectors = TRUE]
            /\ UNCHANGED <<breadcrumbs, selected_query, info_exception>>
       ELSE IF emoji = PREVIOUS_PAGE /\ has_prev_query(breadcrumbs)
       THEN /\ breadcrumbs' = goto_prev_query(breadcrumbs)
            /\ selected_query' = <<primary_query(breadcrumbs')>>
            /\ UNCHANGED <<info, info_exception>>
       ELSE IF emoji = NEXT_PAGE /\ breadcrumbs.page < _num_pages(info)
       THEN /\ breadcrumbs' = goto_next_page(breadcrumbs)
            /\ UNCHANGED <<info, selected_query, info_exception>>
       ELSE IF emoji = PREVIOUS_PAGE /\ breadcrumbs.page > 1
       THEN /\ breadcrumbs' = goto_prev_page(breadcrumbs)
            /\ UNCHANGED <<info, selected_query, info_exception>>
       ELSE IF emoji \in Range(NUM_EMOJI)
       THEN LET index == index_of(NUM_EMOJI, emoji) - 1
                at == var_index(breadcrumbs.page, index)
            IN  IF InRange(info._vars, at)
                THEN /\ selected_query' = <<item_at(info._vars, at)>>
                     /\ breadcrumbs' = add_query(breadcrumbs, item_at(info._vars, at))
                     /\ UNCHANGED <<info, info_exception>>
                ELSE /\ info_exception' = "IndexError"
                     /\ UNCHANGED <<info, breadcrumbs, selected_query>>
       ELSE UNCHANGED <<info, breadcrumbs, selected_query, info_exception>>
    /\ UNCHANGED <<matched_vars, info_message>>
    /\ UNCHANGED OutsideInfo

InfoNext ==
    \/ InfoMessage
    \/ \E emoji \in Emojis : HandleReaction(emoji)

InfoSpec == InfoInit /\ [][InfoNext]_every_var

Count(list, x) == Cardinality({i \in DOMAIN list : list[i] = x})

\* The entries page p of the list shows.
ShownOn(p) ==
    _get_info_page(info, [breadcrumbs EXCEPT !.page = p]).embed.description

\* The pages showing the entry at position k of the sorted matches,
\* positions counted from 0.
PagesShowing(k) ==
    {p \in 1.._num_pages(info) :
        \E i \in DOMAIN ShownOn(p) : (p - 1) * 9 + (i - 1) = k}

\* C20: for an info result with n > 1 matches the list has ceil(n/9)
\* pages, page p shows the entries at positions (p-1)*9 up to p*9-1 of the
\* matches sorted by human-readable name, every page shows between 1 and 9
\* entries and every match is shown on exactly one page.
C20_Pages ==
    LET n == Len(matched_vars)
        pages == _num_pages(info)
    IN  n > 1 =>
            /\ Len(info._vars) = n
            /\ \A var \in Range(matched_vars) \cup Range(info._vars) :
                  Count(info._vars, var) = Count(matched_vars, var)
            /\ \A i, j \in 1..n :
                  i < j => name_order(info._vars[i]) <= name_order(info._vars[j])
            /\ (pages - 1) * 9 < n /\ n <= pages * 9
            /\ \A p \in 1..pages :
                  /\ Len(ShownOn(p)) \in 1..9
                  /\ \A k \in (p - 1) * 9 .. p * 9 - 1 :
                        k < n =>
                            /\ k - (p - 1) * 9 + 1 \in DOMAIN ShownOn(p)
                            /\ ShownOn(p)[k - (p - 1) * 9 + 1].var = info._vars[k + 1]
            /\ \A k \in 0..n - 1 : Cardinality(PagesShowing(k)) = 1
            /\ info_message # <<>> =>
                  LET m == info_message[1]
                  IN  /\ m.embed.footer.page \in 1..pages
                      /\ m.embed.footer.of = pages
                      /\ [i \in DOMAIN m.embed.description |->
                             m.embed.description[i].var]
                            = SubSeq(info._vars,
                                     (m.embed.footer.page - 1) * 9 + 1,
                                     IF m.embed.footer.page * 9 < n
                                     THEN m.embed.footer.page * 9 ELSE n)

\* Nineteen matches, handed over in another order than by name, are shown
\* at their third page, which holds the last of them alone.
C20_Witness ==
    /\ Len(matched_vars) = 19
    /\ matched_vars # info._vars
    /\ info_message # <<>>
    /\ info_message[1].embed.footer = [page |-> 3, of |-> 3]
    /\ Len(info_message[1].embed.description) = 1
    /\ info_message[1].embed.description[1].var = "Screw"

(***************************************************************************)
(* Two requests rendering their optimization results at the same time.     *)
(* OptimizationResult.__solution_message writes the flow graph of every    *)
(* request to output/output.gv.png and attaches the file of that path.     *)
(***************************************************************************)

RequestIds == {1, 2}

\* The solutions the two requests have found.
RequestSolutions ==
    {v \in Solved :
        /\ v["item:screw"] = Value(20)
        /\ v["recipe:iron-rod"] = Value(5)
        /\ v["recipe:screw"] = Value(3)
        /\ v["recipe:alternate:cast-screw"] = Value(0)
        /\ v["power-recipe:coal"] = Value(0)
        /\ v["crafter:constructor"] = Value(4)
        /\ v["power"] = NoValue
        /\ \A generator_var \in db_generators : v[generator_var] = Value(0)}

Request(v) ==
    [opt |-> OptimizationResult(v, LpStatusOptimal, Value(60)),
     pc |-> "generate_graph_viz",
     message |-> ResultMessage]

RequestsInit ==
    /\ requests \in [RequestIds -> {Request(v) : v \in RequestSolutions}]
    /\ parse_results = <<>>
    /\ query = None
    /\ pc = "done"
    /\ idx = 1
    /\ error = NoError
    /\ ResolverIdle /\ OptimizationIdle /\ InfoIdle /\ ShownIdle

OutsideRequests ==
    <<vars, resolver_vars, info_vars, shown, lp, opt, text, message, exception, called>>

\* self.generate_graph_viz(filepath): the graph is rendered to the path
GenerateGraphViz(r) ==
    /\ requests[r].pc = "generate_graph_viz"
    /\ output_gv_png' = generate_graph_viz(requests[r].opt)
    /\ requests' = [requests EXCEPT ![r].pc = "File"]
    /\ UNCHANGED OutsideRequests

\* file = File(filepath + '.png'); message.file = file; return message
AttachFile(r) ==
    /\ requests[r].pc = "File"
    /\ requests' =
          [requests EXCEPT
              ![r].message =
                  [ResultMessage EXCEPT
                      !.embed = [Embed("Optimization Query") EXCEPT
                                    !.description = " ",
                                    !.fields = solution_fields(requests[r].opt)],
                      !.file = output_gv_png,
                      !.content = Breadcrumbs(<<"produce 20 screws">>)],
              ![r].pc = "done"]
    /\ UNCHANGED output_gv_png
    /\ UNCHANGED OutsideRequests

RequestsNext ==
    \E r \in RequestIds :
        \/ GenerateGraphViz(r)
        \/ AttachFile(r)

RequestsSpec == RequestsInit /\ [][RequestsNext]_every_var

\* C16: no mutable state is shared between requests: with the steps of two
\* requests interleaved, each gets the message and the flow diagram it gets
\* when it runs alone, the diagram of its own solution.
C16_Isolated ==
    \A r \in RequestIds :
        requests[r].pc = "done" =>
            /\ requests[r].message.embed.fields = solution_fields(requests[r].opt)
            /\ requests[r].message.file = generate_graph_viz(requests[r].opt)

(***************************************************************************)
(* message() of every kind of result, its texts told by their length.      *)
(***************************************************************************)

\* len(message.content) > 2000
content_limit == 2000

\* A text of so many characters, and the text set in place of a content
\* that is too long.
Text(len) == [len |-> len, placeholder |-> FALSE]
OutputWasTooLong == [len |-> 19, placeholder |-> TRUE]

\* len(str(HelpResult()))
HelpLen == 685

ResultKinds == {"help", "error", "info", "optimization", "recipe-compare"}

\* Lengths of str(breadcrumbs) and of the text a result of each kind holds:
\* the error message, the nine lines of an info page, the fields of a
\* solution, the two tables of a recipe comparison.
BreadcrumbLengths == {10, 100, 300}

TextLengths(kind) ==
    CASE kind = "help" -> {HelpLen}
      [] kind = "error" -> {30, 500, 1999, 2000, 2001, 4000}
      [] kind = "info" -> {20, 400}
      [] kind = "optimization" -> {100, 1000, 1999, 2001}
      [] kind = "recipe-compare" -> {300, 1000, 1689, 1690, 1998, 2500}

\* The content kept whatever its length.
capped_never(content) == content

\* if len(message.content) > 2000: message.content = "Output was too long"
capped(content) == IF content.len > content_limit THEN OutputWasTooLong ELSE content

TextMessage(title, description, content) ==
    [title |-> title, description |-> description, content |-> content]

\* HelpResult.message
HelpResult_message(breadcrumbs_len) ==
    TextMessage(Text(4), Text(HelpLen), Text(breadcrumbs_len))

\* ErrorResult.message
ErrorResult_message(msg_len, breadcrumbs_len) ==
    TextMessage(Text(5), Text(msg_len), Text(breadcrumbs_len))

\* InfoResult._get_info_page: "Found n matches:", the lines of the page
InfoResult_message(out_len, breadcrumbs_len) ==
    TextMessage(Text(17), Text(out_len), Text(breadcrumbs_len))

\* OptimizationResult.__solution_message: "Optimization Query", " " and the
\* fields
OptimizationResult_message(fields_len, breadcrumbs_len) ==
    TextMessage(Text(18), Text(1 + fields_len), Text(breadcrumbs_len))

\* RecipeCompareResult.message: "{}\n{}".format(str(breadcrumbs), out)
RecipeCompareResult_message(out_len, breadcrumbs_len) ==
    TextMessage(Text(0), Text(0), capped(Text(breadcrumbs_len + 1 + out_len)))

ShownInit ==
    /\ shown \in UNION {[kind : {kind}, text : TextLengths(kind),
                         breadcrumbs : BreadcrumbLengths, message : {<<>>}]
                            : kind \in ResultKinds}
    /\ parse_results = <<>>
    /\ query = None
    /\ pc = "done"
    /\ idx = 1
    /\ error = NoError
    /\ ResolverIdle /\ OptimizationIdle /\ InfoIdle /\ RequestsIdle

OutsideShown == <<vars, resolver_vars, optimization_vars, info_vars, requests>>

\* HelpResult().message(breadcrumbs)
HelpMessage ==
    /\ shown.kind = "help"
    /\ shown.message = <<>>
    /\ shown' = [shown EXCEPT
                    !.message = <<HelpResult_message(shown.breadcrumbs)>>]
    /\ UNCHANGED OutsideShown

\* ErrorResult(msg).message(breadcrumbs)
ErrorMessage ==
    /\ shown.kind = "error"
    /\ shown.message = <<>>
    /\ shown' = [shown EXCEPT
                    !.message = <<ErrorResult_message(shown.text, shown.breadcrumbs)>>]
    /\ UNCHANGED OutsideShown

\* InfoResult(vars_, raw_query).message(breadcrumbs)
InfoPageMessage ==
    /\ shown.kind = "info"
    /\ shown.message = <<>>
    /\ shown' = [shown EXCEPT
                    !.message = <<InfoResult_message(shown.text, shown.breadcrumbs)>>]
    /\ UNCHANGED OutsideShown

\* OptimizationResult(...).message(breadcrumbs), the solution optimal
SolutionMessage ==
    /\ shown.kind = "optimization"
    /\ shown.message = <<>>
    /\ shown' = [shown EXCEPT
                    !.message = <<OptimizationResult_message(shown.text, shown.breadcrumbs)>>]
    /\ UNCHANGED OutsideShown

\* RecipeCompareResult(stats).message(breadcrumbs)
RecipeCompareMessage ==
    /\ shown.kind = "recipe-compare"
    /\ shown.message = <<>>
    /\ shown' = [shown EXCEPT
                    !.message = <<RecipeCompareResult_message(shown.text, shown.breadcrumbs)>>]
    /\ UNCHANGED OutsideShown

ShownNext ==
    \/ HelpMessage
    \/ ErrorMessage
    \/ InfoPageMessage
    \/ SolutionMessage
    \/ RecipeCompareMessage

ShownSpec == ShownInit /\ [][ShownNext]_every_var

\* The characters of a message: content, title and description.
TextLen(m) == m.content.len + m.title.len + m.description.len

\* C17: for every kind of result, no message() call returns text longer
\* than 2000 characters: a message whose text would be longer holds the
\* "too long" placeholder instead.
C17_Capped ==
    shown.message # <<>> => TextLen(shown.message[1]) <= content_limit

(***************************************************************************)
(* Reactions on an info result.                                            *)
(***************************************************************************)

\* A paged list is shown.
PagedList == Len(info._vars) > 1 /\ info_message # <<>>

\* C21: on a paged info list shown at page p > 1, the PREVIOUS_PAGE
\* reaction moves the list to page p-1 and returns no query, whatever the
\* navigation trail holds, also when it has a previous query.
C21_PreviousPage ==
    [][(PagedList /\ breadcrumbs.page > 1 /\ HandleReaction(PREVIOUS_PAGE)) =>
          /\ breadcrumbs'.page = breadcrumbs.page - 1
          /\ breadcrumbs'.queries = breadcrumbs.queries
          /\ selected_query' = <<>>]_every_var

\* ceil(n / 9), told without the division: the least number of pages of
\* nine that hold n entries.
PagesFor(n) == CHOOSE pages \in 0..n : (pages - 1) * 9 < n /\ n <= pages * 9

\* C22: from page 1 of an info result with at least one match, as long as
\* the reactions handled do not leave the result, the page p has
\* 1 <= p <= ceil(n/9); NEXT_PAGE on the last page and PREVIOUS_PAGE on
\* page 1 leave the page as it is.
C22_PageInRange ==
    /\ [](( InResult /\ Len(info._vars) >= 1) =>
            (1 <= breadcrumbs.page /\ breadcrumbs.page <= PagesFor(Len(info._vars))))
    /\ [][(Len(info._vars) >= 1 /\ InResult') =>
            /\ (breadcrumbs.page = PagesFor(Len(info._vars)) /\ HandleReaction(NEXT_PAGE))
                  => breadcrumbs'.page = breadcrumbs.page
            /\ (breadcrumbs.page = 1 /\ HandleReaction(PREVIOUS_PAGE))
                  => breadcrumbs'.page = breadcrumbs.page]_every_var

\* Ten matches are shown at their second and last page after NEXT_PAGE.
C22_Witness ==
    /\ InResult
    /\ Len(info._vars) = 10
    /\ breadcrumbs.page = 2
    /\ info_message # <<>>
    /\ info_message[1].embed.footer = [page |-> 2, of |-> 2]

\* C23: every numbered-select reaction handle_reaction accepts on page p
\* selects one of the entries shown on page p, the one at the number's
\* position; handle_reaction does not raise and does not select an entity
\* of another page, also on a last page with fewer than nine entries.
C23_SelectsShown ==
    [][\A emoji \in Range(NUM_EMOJI) :
          (PagedList /\ HandleReaction(emoji)) =>
              LET on_page == vars_on_page(info, breadcrumbs.page)
                  position == index_of(NUM_EMOJI, emoji)
              IN  /\ info_exception' = None
                  /\ selected_query' # <<>> =>
                        /\ position \in DOMAIN on_page
                        /\ selected_query'[1] = on_page[position]]_every_var

\* C24: in the flow graph of an optimal solution whose recipe values are
\* positive, every source amount recorded for an item, that of an input
\* item supplied from outside included, is the positive amount supplied, and
\* every edge from a source to a sink carries an amount >= 0.
C24_SourcesPositive ==
    FlowGraphDrawn =>
        /\ \A item_var \in DOMAIN sources_of(lp.vars) :
              \A source \in DOMAIN sources_of(lp.vars)[item_var] :
                  sources_of(lp.vars)[item_var][source] > 0
        /\ \A e \in output_gv_png.edges : e.amount.num * e.amount.den >= 0

====
